---- MODULE Spec2Model ----
(***************************************************************************)
(* A model of spectralLES (src/spectralLES/spectralLES.py): the            *)
(* pseudo-spectral LES solver, its filter kernels, initial conditions,     *)
(* source terms, advection-diffusion evaluator, timestep estimator and     *)
(* RK4 driver, run SPMD on `size` processes.                               *)
(*                                                                         *)
(* Numbers.  A float is an exact rational <<n, d>> in lowest terms with    *)
(* d >= 0; d = 0 holds the IEEE specials: <<1,0>> = +inf, <<-1,0>> = -inf, *)
(* <<0,0>> = NaN.  A complex number is <<re, im>>.  Round-off is not       *)
(* modelled in + - * /; sqrt, exp, sin, pow, the inverse transform, the    *)
(* quotients of reductions (the forcing scale, Cs^2) and the product of    *)
(* dU with a kernel value other than 0 and 1 are rounded to the model's    *)
(* precision.                                                              *)
(*                                                                         *)
(* Arrays.  A distributed array is modelled globally: a physical field is  *)
(* a function on Points(nx), a spectral field a function on Modes(nx);     *)
(* process r owns the points with PRank = r and the modes with KRank = r.  *)
(* TLA+ tuples count from 1: python's nx[0] is nx[1] here, u[i] is u[i+1]. *)
(***************************************************************************)
EXTENDS Integers, Sequences, FiniteSets, TLC

\* ------------------------------------------------------------- numbers

Abs(n) == IF n < 0 THEN -n ELSE n

Sgn(n) == IF n < 0 THEN -1 ELSE IF n > 0 THEN 1 ELSE 0

RECURSIVE GCD(_, _)
GCD(a, b) == IF b = 0 THEN a ELSE GCD(b, a % b)

\* the float n/d, in lowest terms
Q(n, d) ==
  IF d = 0 THEN <<Sgn(n), 0>>
  ELSE IF n = 0 THEN <<0, 1>>
  ELSE LET g == GCD(Abs(n), Abs(d))
       IN  <<Sgn(d) * Sgn(n) * (Abs(n) \div g), Abs(d) \div g>>

Q0 == <<0, 1>>
Q1 == <<1, 1>>
QNaN == <<0, 0>>
QInf == <<1, 0>>
QInt(n) == <<n, 1>>

QIsNaN(a) == a = QNaN
QIsFinite(a) == a[2] # 0

QNeg(a) == <<-a[1], a[2]>>

QAdd(a, b) ==
  IF a[2] = 0 /\ b[2] = 0 THEN (IF a = b THEN a ELSE QNaN)
  ELSE IF a[2] = 0 THEN a
  ELSE IF b[2] = 0 THEN b
  ELSE IF a[2] = 1 /\ b[2] = 1 THEN <<a[1] + b[1], 1>>
  ELSE LET g == GCD(a[2], b[2])
       IN  Q(a[1] * (b[2] \div g) + b[1] * (a[2] \div g), (a[2] \div g) * b[2])

QSub(a, b) == QAdd(a, QNeg(b))

QMul(a, b) ==
  IF a[2] = 0 \/ b[2] = 0 THEN <<Sgn(a[1]) * Sgn(b[1]), 0>>
  ELSE IF a[1] = 0 \/ b[1] = 0 THEN Q0
  ELSE IF a[2] = 1 /\ b[2] = 1 THEN <<a[1] * b[1], 1>>
  ELSE LET g1 == GCD(Abs(a[1]), b[2])
           g2 == GCD(Abs(b[1]), a[2])
       IN  <<(a[1] \div g1) * (b[1] \div g2), (a[2] \div g2) * (b[2] \div g1)>>

\* IEEE division: x/0 is +-inf, 0/0 is NaN
QDiv(a, b) ==
  IF a[2] # 0 /\ b[2] # 0 /\ b[1] # 0
  THEN QMul(a, <<Sgn(b[1]) * b[2], Abs(b[1])>>)
  ELSE Q(a[1] * b[2] * (IF b[1] < 0 THEN -1 ELSE 1), a[2] * Abs(b[1]))

\* a < b; every comparison with NaN is false
QLt(a, b) ==
  IF QIsNaN(a) \/ QIsNaN(b) THEN FALSE
  ELSE IF a[2] = 0 /\ b[2] = 0 THEN a[1] < b[1]
  ELSE IF a[2] = 0 THEN a[1] < 0
  ELSE IF b[2] = 0 THEN b[1] > 0
  ELSE a[1] * b[2] < b[1] * a[2]

QAbs(a) == <<Abs(a[1]), a[2]>>

RECURSIVE ISqrtIn(_, _, _)
ISqrtIn(n, lo, hi) ==
  IF hi - lo <= 1 THEN lo
  ELSE LET mid == (lo + hi) \div 2
       IN  IF mid * mid <= n THEN ISqrtIn(n, mid, hi) ELSE ISqrtIn(n, lo, mid)

\* floor(sqrt(n)) for 0 <= n < 2^30
ISqrt(n) == ISqrtIn(n, 0, 32768)

\* np.sqrt: NaN below zero, else the root rounded down to a multiple of 1/4
QSqrt(a) ==
  IF QIsNaN(a) \/ a[1] < 0 THEN QNaN
  ELSE IF a[2] = 0 THEN QInf
  ELSE Q(ISqrt((16 * a[1]) \div a[2]), 4)

QMax(a, b) == IF QLt(a, b) THEN b ELSE a
QMin(a, b) == IF QLt(b, a) THEN b ELSE a

\* complex numbers <<re, im>>
C0 == <<Q0, Q0>>
C1 == <<Q1, Q0>>
CAdd(a, b) == <<QAdd(a[1], b[1]), QAdd(a[2], b[2])>>
CSub(a, b) == <<QSub(a[1], b[1]), QSub(a[2], b[2])>>
CIsFinite(a) == QIsFinite(a[1]) /\ QIsFinite(a[2])
CMulFull(a, b) ==
  <<QSub(QMul(a[1], b[1]), QMul(a[2], b[2])),
    QAdd(QMul(a[1], b[2]), QMul(a[2], b[1]))>>
\* numpy's complex product; the short forms are the same product when the
\* other factor is finite
CMul(a, b) ==
  IF b[2] = Q0 /\ CIsFinite(a) THEN <<QMul(a[1], b[1]), QMul(a[2], b[1])>>
  ELSE IF a[2] = Q0 /\ CIsFinite(b) THEN <<QMul(a[1], b[1]), QMul(a[1], b[2])>>
  ELSE CMulFull(a, b)
\* a real times a complex: numpy casts the real to q+0j
CScale(q, a) == CMul(a, <<q, Q0>>)
\* 1j*a
CTimesI(a) ==
  IF CIsFinite(a) THEN <<QNeg(a[2]), a[1]>> ELSE CMulFull(<<Q0, Q1>>, a)
\* a * 1j^e, e >= 0, for a twiddle factor of the transform
CTimesIPow(a, e) ==
  CASE e % 4 = 0 -> a
    [] e % 4 = 1 -> <<QNeg(a[2]), a[1]>>
    [] e % 4 = 2 -> <<QNeg(a[1]), QNeg(a[2])>>
    [] OTHER -> <<a[2], QNeg(a[1])>>

\* -------------------------------------------------------- evaluation

\* An array is held as an explicit table of its elements: Force(f) is f,
\* tabulated once.  After(u, e) is e, evaluated once the array u is known.
Force(f) == f @@ <<>>
After(u, e) == IF DOMAIN u = DOMAIN u THEN e ELSE e

\* ---------------------------------------------------------------- grid

\* np.fft.fftfreq(n)*n at index j
fftfreq(n, j) == IF 2 * j < n THEN j ELSE j - n

\* nk: nx with the last axis halved (real-to-complex)
nkOf(nx) == <<nx[1], nx[2], nx[3] \div 2 + 1>>

Points(nx) == (0 .. nx[1] - 1) \X (0 .. nx[2] - 1) \X (0 .. nx[3] - 1)
Modes(nx) == (0 .. nx[1] - 1) \X (0 .. nx[2] - 1) \X (0 .. nx[3] \div 2)

\* the owner of a physical point (slabs along axis 0) and of a mode (axis 1)
PRank(nx, size, p) == p[1] \div (nx[1] \div size)
KRank(nx, size, m) == m[2] \div (nx[2] \div size)

\* self.K at mode m: [k3, k2, k1], integers
KAt(nx, m) == <<fftfreq(nx[1], m[1]), fftfreq(nx[2], m[2]), m[3]>>
KsqAt(nx, m) ==
  LET k == KAt(nx, m) IN k[1] * k[1] + k[2] * k[2] + k[3] * k[3]
\* self.K_Ksq[i] at mode m: K/Ksq with Ksq = 0 replaced by 1
K_KsqAt(nx, m, i) ==
  LET ksq == KsqAt(nx, m)
  IN  Q(KAt(nx, m)[i], IF ksq = 0 THEN 1 ELSE ksq)

\* sums of the elements lo..hi of a sequence of numbers, pairwise
RECURSIVE QSumRange(_, _, _)
QSumRange(f, lo, hi) ==
  IF hi < lo THEN Q0
  ELSE IF lo = hi THEN f[lo]
  ELSE LET mid == (lo + hi) \div 2
       IN  QAdd(QSumRange(f, lo, mid), QSumRange(f, mid + 1, hi))
RECURSIVE CSumRange(_, _, _)
CSumRange(f, lo, hi) ==
  IF hi < lo THEN C0
  ELSE IF lo = hi THEN f[lo]
  ELSE LET mid == (lo + hi) \div 2
       IN  CAdd(CSumRange(f, lo, mid), CSumRange(f, mid + 1, hi))
QSumSeq(f, n) == QSumRange(f, 1, n)
CSumSeq(f, n) == CSumRange(f, 1, n)

\* the points and the modes in C order
PointAt(nx, j) ==
  <<j \div (nx[2] * nx[3]), (j \div nx[3]) % nx[2], j % nx[3]>>
ModeAt(nx, j) ==
  LET nk == nkOf(nx)
  IN  <<j \div (nk[2] * nk[3]), (j \div nk[3]) % nk[2], j % nk[3]>>
NPoints(nx) == nx[1] * nx[2] * nx[3]
NModes(nx) == nx[1] * nx[2] * (nx[3] \div 2 + 1)

\* the phase of mode m at point p, as a power of 1j: 2*pi*(k.x/n) = e*pi/2.
\* Exact for axes of length 1, 2 and 4.
Phase(nx, m, p) ==
  (((4 \div nx[1]) * m[1] * p[1]) + ((4 \div nx[2]) * m[2] * p[2])
     + ((4 \div nx[3]) * m[3] * p[3])) % 4

\* teslacu.fft.rfft3: the forward real-to-complex transform of the whole
\* (distributed) array
rfft3(nx, u) ==
  After(u, Force([m \in Modes(nx) |->
     CSumSeq([j \in 1 .. NPoints(nx) |->
                LET p == PointAt(nx, j - 1)
                IN  CTimesIPow(<<u[p], Q0>>, 4 - Phase(nx, m, p))],
             NPoints(nx))]))

\* a float rounded down to a multiple of 1/16, the precision to which the
\* model computes an inverse transform
QRound(a) ==
  IF a[2] = 0 \/ 16 % a[2] = 0 THEN a
  ELSE LET n == a[1] * 16
       IN  Q(IF n >= 0 THEN n \div a[2] ELSE -((-n + a[2] - 1) \div a[2]), 16)

\* teslacu.fft.irfft3: the inverse: the half-spectrum is completed by
\* Hermitian symmetry (weight 2 on the interior modes of the last axis) and
\* the real part is kept.  It inverts rfft3 on every array it can return.
irfft3(nx, F) ==
  After(F, Force([p \in Points(nx) |->
     QRound(QDiv(CSumSeq([j \in 1 .. NModes(nx) |->
                     LET m == ModeAt(nx, j - 1)
                         w == IF m[3] = 0 \/ 2 * m[3] = nx[3] THEN 1 ELSE 2
                     IN  CTimesIPow(CScale(QInt(w), F[m]), Phase(nx, m, p))],
                  NModes(nx))[1],
          QInt(NPoints(nx))))]))

\* ---------------------------------------------------- rounded functions

\* a*g for a kernel value g: exact when g is 0 or 1, rounded otherwise
CRound(c) == <<QRound(c[1]), QRound(c[2])>>
CMulKernel(a, g) == IF g = C0 \/ g = C1 THEN CMul(a, g) ELSE CRound(CMul(a, g))

\* np.exp rounded down to a multiple of 1/4 (exp(0) = 1, exp(-inf) = 0); the
\* thresholds are ln(4/3), ln 2 and ln 4 to two decimals
QExpNeg(y) ==
  IF y = Q0 THEN Q1
  ELSE IF QLt(y, Q(29, 100)) THEN Q(3, 4)
  ELSE IF QLt(y, Q(69, 100)) THEN Q(1, 2)
  ELSE IF QLt(y, Q(139, 100)) THEN Q(1, 4)
  ELSE Q0
QExp(x) ==
  IF QIsNaN(x) THEN QNaN
  ELSE IF QLt(Q0, x) THEN QDiv(Q1, QExpNeg(x))
  ELSE QExpNeg(QNeg(x))

\* floor of a finite float
QFloor(a) == IF a[1] >= 0 THEN a[1] \div a[2] ELSE -((-a[1] + a[2] - 1) \div a[2])

\* np.sin(pi*x) with x rounded down to a multiple of 1/2, where it is exact
QSinPi(x) ==
  IF ~QIsFinite(x) THEN QNaN
  ELSE LET h == QFloor(QMul(x, QInt(2))) % 4
       IN  IF h = 1 THEN Q1 ELSE IF h = 3 THEN QInt(-1) ELSE Q0

\* math.pi as a float of the model
QPi == Q(22, 7)

\* Lengths are held in units of pi/2, so that L = 4 is the 2*pi box and the
\* grid coordinates of an axis of 1, 2 or 4 points are whole units.
\* np.sin and np.cos of a coordinate, rounded down to a whole unit
SinU(x) == QSinPi(QDiv(QInt(QFloor(x)), QInt(2)))
CosU(x) == QSinPi(QDiv(QInt(QFloor(x) + 1), QInt(2)))

\* ------------------------------------------------------------- arrays

PFill(nx, q) == Force([p \in Points(nx) |-> q])
KFill(nx, c) == Force([m \in Modes(nx) |-> c])
PAdd(f, g) == After(f, After(g, Force([p \in DOMAIN f |-> QAdd(f[p], g[p])])))
PSub(f, g) == After(f, After(g, Force([p \in DOMAIN f |-> QSub(f[p], g[p])])))
PMul(f, g) == After(f, After(g, Force([p \in DOMAIN f |-> QMul(f[p], g[p])])))
PSquare(f) == PMul(f, f)
PScale(q, f) == After(f, Force([p \in DOMAIN f |-> QMul(q, f[p])]))
PSqrt(f) == After(f, Force([p \in DOMAIN f |-> QSqrt(f[p])]))
KAdd(F, G) == After(F, After(G, Force([m \in DOMAIN F |-> CAdd(F[m], G[m])])))
KMul(F, G) == After(F, After(G, Force([m \in DOMAIN F |-> CMul(F[m], G[m])])))
KScale(q, F) == After(F, Force([m \in DOMAIN F |-> CScale(q, F[m])]))
\* a vector (3) or tensor (3 x 3) of arrays, component by component
Vec(e(_)) == Force([i \in 1 .. 3 |-> e(i)])
Ten(e(_, _)) == Force([j \in 1 .. 3 |-> Force([i \in 1 .. 3 |-> e(j, i)])])
VKScale(q, V) == Vec(LAMBDA i : KScale(q, V[i]))
VKAdd(V, W) == Vec(LAMBDA i : KAdd(V[i], W[i]))
VKMul(V, G) == Vec(LAMBDA i : KMul(V[i], G))

\* np.empty: the elements hold whatever the allocator left there; g picks
\* one such content (g = 0: fresh zero pages), a tells the arrays apart
Garbage(g, a, j) == QInt((g * (a + j + 1)) % 3)
PointIx(nx, p) == (p[1] * nx[2] + p[2]) * nx[3] + p[3]
ModeIx(nx, m) == (m[1] * nx[2] + m[2]) * (nx[3] \div 2 + 1) + m[3]
PEmpty(nx, g, a) ==
  Force([p \in Points(nx) |-> Garbage(g, a, PointIx(nx, p))])
KEmpty(nx, g, a) ==
  Force([m \in Modes(nx) |->
     <<Garbage(g, a, ModeIx(nx, m)), Garbage(g, a + 1, ModeIx(nx, m))>>])

\* ------------------------------------------------------ filter kernels

\* python's None where a number is expected
None == <<0, -1>>

Lmin(L) == QMin(L[1], QMin(L[2], L[3]))

\* kmag of filter_kernel and get_random_HIT_spectrum: the wavenumber
\* magnitude corrected by the aspect ratios A = L/L.min()
KmagAt(nx, L, m) ==
  LET k == KAt(nx, m)
      c(i) == QDiv(QInt(k[i]), QDiv(L[i], Lmin(L)))
  IN  QSqrt(QAdd(QMul(c(1), c(1)), QAdd(QMul(c(2), c(2)), QMul(c(3), c(3)))))

GtypeOK(Gtype) == Gtype \in {"tophat", "comp_exp", "spectral"}

\* 'tophat': sin(pi*k_kf)/(pi*k_kf**2)
GhatTophat(x) == <<QDiv(QSinPi(x), QMul(QPi, QMul(x, x))), Q0>>

\* 'comp_exp', before the squaring in physical space:
\* where(k_kf < 0.5, exp(-k_kf**2/(0.25-k_kf**2)), 0.0)
GhatCompExp0(x) ==
  IF QLt(x, Q(1, 2))
  THEN <<QExp(QDiv(QNeg(QMul(x, x)), QSub(Q(1, 4), QMul(x, x)))), Q0>>
  ELSE C0

\* 'spectral': abs(k_kf) < 1.0
GhatSpectral(x) == IF QLt(QAbs(x), Q1) THEN C1 ELSE C0

\* python's y > x on two complex floats, as numpy orders them
CGt(y, x) == QLt(x[1], y[1]) \/ (x[1] = y[1] /\ QLt(x[2], y[2]))

\* 1.0/c
CInv(c) ==
  LET n2 == QAdd(QMul(c[1], c[1]), QMul(c[2], c[2]))
  IN  <<QDiv(c[1], n2), QDiv(QNeg(c[2]), n2)>>

\* comm.allreduce(v, op=MPI.MAX) of one value per process
RECURSIVE AllreduceMaxC(_, _)
AllreduceMaxC(v, n) ==
  IF n = 1 THEN v[1]
  ELSE LET acc == AllreduceMaxC(v, n - 1)
       IN  IF CGt(v[n], acc) THEN v[n] ELSE acc

\* the local element [0, 0, 0] of a spectral array on process r (from 0)
LocalFirstMode(nx, size, r) == <<0, r * (nx[2] \div size), 0>>

\* the 'comp_exp' kernel, statement by statement.
\* G = irfft3(Ghat); G[:] = np.square(G); rfft3(G, Ghat)
CompExpSquared(nx, Ghat) == rfft3(nx, PSquare(irfft3(nx, Ghat)))

\* Ghat *= 1.0/allreduce(Ghat[0, 0, 0], op=MPI.MAX)
CompExpScaled(nx, size, Ghat) ==
  KMul(Ghat,
       KFill(nx, CInv(AllreduceMaxC([r \in 1 .. size |->
                        Ghat[LocalFirstMode(nx, size, r - 1)]], size))))

\* Ghat -= 1j*np.imag(Ghat)
CompExpReal(nx, Ghat) ==
  After(Ghat, Force([m \in Modes(nx) |->
     CSub(Ghat[m], CMul(<<Q0, Q1>>, <<Ghat[m][2], Q0>>))]))

GhatCompExp(nx, size, k_kf) ==
  CompExpReal(nx, CompExpScaled(nx, size,
     CompExpSquared(nx, Force([m \in Modes(nx) |-> GhatCompExp0(k_kf[m])]))))

\* k_kf = kmag/kf when the caller passes no k_kf
IsotropicKkf(nx, L, kf) ==
  Force([m \in Modes(nx) |-> QDiv(KmagAt(nx, L, m), kf)])

\* filter_kernel on a given k_kf: the kernel, or the exception raised
filter_kernel_on(nx, size, k_kf, Gtype) ==
  After(k_kf,
  IF Gtype = "tophat"
  THEN [err |-> "", Ghat |-> Force([m \in Modes(nx) |-> GhatTophat(k_kf[m])])]
  ELSE IF Gtype = "comp_exp"
  THEN [err |-> "", Ghat |-> GhatCompExp(nx, size, k_kf)]
  ELSE IF Gtype = "spectral"
  THEN [err |-> "", Ghat |-> Force([m \in Modes(nx) |-> GhatSpectral(k_kf[m])])]
  ELSE [err |-> "ValueError", Ghat |-> <<>>])

filter_kernel(nx, size, L, kf, Gtype) ==
  filter_kernel_on(nx, size, IsotropicKkf(nx, L, kf), Gtype)

\* the collective calls one process issues in filter_kernel
filter_kernel_coll(Gtype) ==
  IF Gtype = "comp_exp" THEN <<"irfft3", "rfft3", "allreduce">> ELSE <<>>

\* -------------------------------------------------------- constructor

\* An argument that may be a scalar or an iterable: [it |-> np.iterable(x),
\* v |-> its elements (the one element of a scalar)]
Scalar(x) == [it |-> FALSE, v |-> <<x>>]
Iterable(xs) == [it |-> TRUE, v |-> xs]

\* every length accepted
LenAny(arg) == TRUE

\* lines 68-86: the three components of nx or L, or the IndexError
LenOK(arg) == ~arg.it \/ Len(arg.v) \in {1, 3}
Expand3(arg) ==
  IF arg.it /\ Len(arg.v) = 3 THEN arg.v ELSE <<arg.v[1], arg.v[1], arg.v[1]>>

Min3(n) ==
  LET a == IF n[1] < n[2] THEN n[1] ELSE n[2] IN IF a < n[3] THEN a ELSE n[3]

\* floor(sqrt(2)*nx.min()/3.)
DefaultLesScale(nx) == ISqrt(2 * Min3(nx) * Min3(nx)) \div 3

\* Cs = sqrt(pi**-2 * (3*Ck)**-1.5) = 0.098..., and self.C, each rounded to
\* the nearest multiple of 1/16
CsConst == Q(2, 16)
CConst == <<Q(4, 16), Q(-2, 16), Q(1, 16)>>

\* lines 141-144: the LES scale given, or the default
LesScaleOf(nx, les_scale_arg) ==
  IF les_scale_arg = None THEN QInt(DefaultLesScale(nx)) ELSE les_scale_arg

\* lines 148-151: the test scale given, or floor(0.5*les_scale)
TestScaleOf(les_scale, test_scale_arg) ==
  IF test_scale_arg = None THEN QInt(QFloor(QMul(Q(1, 2), les_scale)))
  ELSE test_scale_arg

\* 2.0*(Cs*D)**2
SmagCoef(C_s, D) == QMul(QInt(2), QMul(QMul(C_s, D), QMul(C_s, D)))

\* lines 155-187: the rest of the instance, once both kernels exist
init_arrays(size, L, nx, nu, les_scale, test_scale, eps_inj, g, les_filter, test_filter) ==
  [err |-> "",
   size |-> size, nx |-> nx, L |-> L, nu |-> nu,
   les_scale |-> les_scale, test_scale |-> test_scale,
   les_filter |-> les_filter, test_filter |-> test_filter,
   forcing_filter |-> KFill(nx, C1), forcing_rate |-> eps_inj,
   D |-> QDiv(Lmin(L), les_scale), D_test |-> QDiv(Lmin(L), test_scale),
   smag_coef |-> SmagCoef(CsConst, QDiv(Lmin(L), les_scale)),
   nuTmax |-> Q0,
   U |-> Vec(LAMBDA i : PEmpty(nx, g, i)),
   U_test |-> Vec(LAMBDA i : PEmpty(nx, g, 3 + i)),
   omga |-> Vec(LAMBDA i : PEmpty(nx, g, 6 + i)),
   A |-> Ten(LAMBDA j, i : PEmpty(nx, g, 10 + 3 * j + i)),
   R |-> Ten(LAMBDA j, i : PEmpty(nx, g, 20 + 3 * j + i)),
   S_mod_S_ij_les |->
     Ten(LAMBDA j, i : PEmpty(nx, g, 30 + 3 * j + i)),
   L_dyn |-> Ten(LAMBDA j, i : PEmpty(nx, g, 40 + 3 * j + i)),
   M_dyn |-> Ten(LAMBDA j, i : PEmpty(nx, g, 50 + 3 * j + i)),
   U_hat |-> Vec(LAMBDA i : KEmpty(nx, g, 60 + 2 * i)),
   U_hat_test |-> Vec(LAMBDA i : KEmpty(nx, g, 70 + 2 * i)),
   U_hat0 |-> Vec(LAMBDA i : KEmpty(nx, g, 80 + 2 * i)),
   U_hat1 |-> Vec(LAMBDA i : KEmpty(nx, g, 90 + 2 * i)),
   S_hat |-> Vec(LAMBDA i : KFill(nx, C0)),
   dU |-> Vec(LAMBDA i : KEmpty(nx, g, 100 + 2 * i))]

\* lines 146-153: the two kernels; an exception of filter_kernel ends the
\* construction
init_filters(size, L, nx, nu, Gtype, les_scale, test_scale, eps_inj, g, les) ==
  IF les.err # "" THEN [err |-> les.err]
  ELSE init_arrays(size, L, nx, nu, les_scale, test_scale, eps_inj, g,
                   les.Ghat, filter_kernel(nx, size, L, test_scale, Gtype).Ghat)

init_scales(size, L, nx, nu, Gtype, les_scale, test_scale_arg, eps_inj, g) ==
  init_filters(size, L, nx, nu, Gtype, les_scale,
               TestScaleOf(les_scale, test_scale_arg), eps_inj, g,
               filter_kernel(nx, size, L, les_scale, Gtype))

\* spectralLES.__init__ on a communicator of `size` processes; g is the
\* content of the memory np.empty hands out.  The result is the instance
\* (err = "") or the exception raised (no instance).
spectralLES_init(size, L_arg, nx_arg, nu, Gtype, les_scale_arg, test_scale_arg, eps_inj, g) ==
  IF ~LenOK(nx_arg) THEN [err |-> "IndexError: nx"]
  ELSE IF ~LenOK(L_arg) THEN [err |-> "IndexError: L"]
  ELSE init_scales(size, Expand3(L_arg), Expand3(nx_arg), nu, Gtype,
                   LesScaleOf(Expand3(nx_arg), les_scale_arg), test_scale_arg,
                   eps_inj, g)

\* the collective calls one process issues in the constructor
spectralLES_init_coll(L_arg, nx_arg, Gtype) ==
  IF ~LenOK(nx_arg) \/ ~LenOK(L_arg) \/ ~GtypeOK(Gtype) THEN <<>>
  ELSE filter_kernel_coll(Gtype) \o filter_kernel_coll(Gtype)

\* ------------------------------------------------ derived grid values

dxOf(s) == [i \in 1 .. 3 |-> QDiv(s.L[i], QInt(s.nx[i]))]
NxOf(s) == NPoints(s.nx)
LocalPoints(s, r) == {p \in Points(s.nx) : PRank(s.nx, s.size, p) = r}

\* sums and maxima over a set of points
RECURSIVE QSumSet(_, _)
QSumSet(f, S) ==
  IF S = {} THEN Q0
  ELSE LET x == CHOOSE x \in S : TRUE IN QAdd(f[x], QSumSet(f, S \ {x}))

\* np.max: NaN if any element is NaN
RECURSIVE QMaxSet(_, _)
QMaxSet(f, S) ==
  LET x == CHOOSE x \in S : TRUE
  IN  IF S = {x} THEN f[x]
      ELSE LET rest == QMaxSet(f, S \ {x})
           IN  IF QIsNaN(f[x]) \/ QIsNaN(rest) THEN QNaN ELSE QMax(f[x], rest)

\* comm.allreduce(v): the sum of one value per process
RECURSIVE AllreduceSum(_, _)
AllreduceSum(v, n) == IF n = 0 THEN Q0 ELSE QAdd(AllreduceSum(v, n - 1), v[n])

\* comm.allreduce(v, op=MPI.MAX) of one float per process
RECURSIVE AllreduceMax(_, _)
AllreduceMax(v, n) ==
  IF n = 1 THEN v[1]
  ELSE LET acc == AllreduceMax(v, n - 1)
       IN  IF QLt(acc, v[n]) THEN v[n] ELSE acc

\* comm.allreduce(psum(f)) of a distributed physical array
GlobalSum(s, f) ==
  AllreduceSum([r \in 1 .. s.size |-> QSumSet(f, LocalPoints(s, r - 1))], s.size)

\* comm.allreduce(np.max(f), op=MPI.MAX)
GlobalMax(s, f) ==
  AllreduceMax([r \in 1 .. s.size |-> QMaxSet(f, LocalPoints(s, r - 1))], s.size)

\* ------------------------------------------------ the random generator

\* numpy's global generator, one per process: a state that seed() sets and
\* every sample advances.  A small linear congruential generator stands
\* for the Mersenne twister.
RngStep(st) == (5 * st + 3) % 16
\* n draws later; the generator's period is 16
RECURSIVE RngSteps(_, _)
RngSteps(st, n) == IF n = 0 THEN st ELSE RngStep(RngSteps(st, n - 1))
RngAdv(st, n) == RngSteps(st, n % 16)
RngSeed(k) == k % 16

\* np.random.rand: a sample of [0, 1), here a multiple of 1/4
RandOf(st) == Q(st % 4, 4)
\* np.random.randn: a normal sample
RandnOf(st) == QInt((<<-1, 1, 2, -2>>)[(st \div 4) + 1])

\* a python argument rseed: its type and, for a number, its value
IntArg(k) == [type |-> "int", v |-> k]
NoneArg == [type |-> "NoneType", v |-> 0]

\* lines 296-297: type(rseed) is int and rseed > 0
Seeds(rseed) == rseed.type = "int" /\ rseed.v > 0

\* the generator state of a process after the seeding of line 297
AfterSeed(st, rseed) == IF Seeds(rseed) THEN RngSeed(rseed.v) ELSE st

\* the flat index of element [i, m] in the local array of m's process
LocalFlat(s, i, m) ==
  LET nny == s.nx[2] \div s.size
      nk == s.nx[3] \div 2 + 1
  IN  (((i - 1) * s.nx[1] + m[1]) * nny + (m[2] % nny)) * nk + m[3]
LocalSize(s) == 3 * s.nx[1] * (s.nx[2] \div s.size) * (s.nx[3] \div 2 + 1)

\* np.power(kmag, e): the exponent rounded down to an integer
RECURSIVE QPowInt(_, _)
QPowInt(x, n) ==
  IF n = 0 THEN Q1
  ELSE IF n < 0 THEN QDiv(Q1, QPowInt(x, -n))
  ELSE QMul(x, QPowInt(x, n - 1))
QPow(x, e) == QPowInt(x, QFloor(e))

\* get_random_HIT_spectrum: the new S_hat and generator states
HIT_spectrum_S_hat(s, rng, k_exp, k_peak, rseed) ==
  Vec(LAMBDA i : Force([m \in Modes(s.nx) |->
     LET st0 == AfterSeed(rng[KRank(s.nx, s.size, m) + 1], rseed)
         j == LocalFlat(s, i, m)
         q1 == RandOf(RngAdv(st0, j + 1))
         q2 == RandnOf(RngAdv(st0, LocalSize(s) + j + 1))
         ph == <<QSinPi(QAdd(QMul(QInt(2), q1), Q(1, 2))),
                 QSinPi(QMul(QInt(2), q1))>>
         kmag == KmagAt(s.nx, s.L, m)
         pw == IF QLt(kmag, Q1) THEN Q0
               ELSE QPow(kmag, QSub(k_exp, Q1))
         roll == CMul(s.les_filter[m],
                      <<QExp(QDiv(QNeg(kmag), k_peak)), Q0>>)
     IN  CMul(CScale(pw, CScale(q2, ph)), roll)]))

HIT_spectrum_rng(s, rng, rseed) ==
  [r \in 1 .. s.size |-> RngAdv(AfterSeed(rng[r], rseed), 2 * LocalSize(s))]

\* S_hat -= np.sum(S_hat*K_Ksq, axis=0)*K, and the same line on dU:
\* the Leray-Hopf projection of a spectral vector field
Project(nx, V) ==
  After(V, Vec(LAMBDA i : Force([m \in Modes(nx) |->
     LET dot == CAdd(CAdd(CScale(K_KsqAt(nx, m, 1), V[1][m]),
                          CScale(K_KsqAt(nx, m, 2), V[2][m])),
                     CScale(K_KsqAt(nx, m, 3), V[3][m]))
     IN  CSub(V[i][m], CScale(QInt(KAt(nx, m)[i]), dot))])))

\* rfft3(self.comm, self.U[i], self.U_hat[i]), i = 0, 1, 2
TransformVelocity(s) ==
  [s EXCEPT !.U_hat = Vec(LAMBDA i : rfft3(s.nx, s.U[i]))]

\* self.X[i] at point p
XAt(s, p, i) == QMul(QInt(p[i]), dxOf(s)[i])

\* Initialize_Taylor_Green_vortex
Initialize_Taylor_Green_vortex(s) ==
  TransformVelocity(
    [s EXCEPT !.U =
       <<Force([p \in Points(s.nx) |->
            QMul(QMul(SinU(XAt(s, p, 1)), CosU(XAt(s, p, 2))),
                 CosU(XAt(s, p, 3)))]),
         Force([p \in Points(s.nx) |->
            QMul(QMul(QNeg(CosU(XAt(s, p, 1))), SinU(XAt(s, p, 2))),
                 CosU(XAt(s, p, 3)))]),
         PFill(s.nx, Q0)>>])

Initialize_Taylor_Green_vortex_coll == <<"rfft3", "rfft3", "rfft3">>

\* a vector of physical arrays from a vector of spectral ones
VIrfft3(nx, V) == After(V, Vec(LAMBDA i : irfft3(nx, V[i])))
VPScale(q, V) == Vec(LAMBDA i : PScale(q, V[i]))

\* self.get_random_HIT_spectrum(k_exp, k_peak, rseed), which fills S_hat,
\* then the projection of S_hat
HIT_spectrum(s, rng, k_exp, k_peak, rseed) ==
  [s EXCEPT !.S_hat =
     Project(s.nx, HIT_spectrum_S_hat(s, rng, k_exp, k_peak, rseed))]

\* self.U[i] = irfft3(self.comm, self.S_hat[i])
HIT_physical(s) == [s EXCEPT !.U = VIrfft3(s.nx, s.S_hat)]

\* self.U *= Urms*sqrt(Nx/allreduce(psum(U**2)))
HIT_scale(s, Urms) ==
  [s EXCEPT !.U =
     VPScale(QMul(Urms, QSqrt(QDiv(QInt(NxOf(s)),
                GlobalSum(s, PAdd(PMul(s.U[1], s.U[1]),
                                  PAdd(PMul(s.U[2], s.U[2]),
                                       PMul(s.U[3], s.U[3]))))))),
             s.U)]

\* Initialize_HIT_random_spectrum
Initialize_HIT_random_spectrum(s, rng, Urms, k_exp, k_peak, rseed) ==
  TransformVelocity(HIT_scale(HIT_physical(
     HIT_spectrum(s, rng, k_exp, k_peak, rseed)), Urms))

Initialize_HIT_random_spectrum_coll ==
  <<"irfft3", "irfft3", "irfft3", "allreduce", "rfft3", "rfft3", "rfft3">>

\* ------------------------------------------------------- filter_3D_array

\* the kernel filter_3D_array multiplies by
FilterFor(s, scale_k) ==
  IF scale_k = s.les_scale THEN s.les_filter
  ELSE IF scale_k = s.test_scale THEN s.test_filter
  ELSE filter_kernel(s.nx, s.size, s.L, scale_k, "spectral").Ghat

\* filter_3D_array(array, scale_k): the filtered array
filter_3D_array(s, array, scale_k) ==
  irfft3(s.nx, KMul(rfft3(s.nx, array), FilterFor(s, scale_k)))

\* ------------------------------------------------- the forcing sources

\* psum(self.omga*self.U), all-reduced: the sum over the three components
\* and over every point of every process
TransferSum(s) ==
  GlobalSum(s, PAdd(PAdd(PMul(s.omga[1], s.U[1]), PMul(s.omga[2], s.U[2])),
                    PMul(s.omga[3], s.U[3])))

\* self.dx.prod()
dxProd(s) == QMul(QMul(dxOf(s)[1], dxOf(s)[2]), dxOf(s)[3])

\* forcing_rate/(allreduce(psum(omga*U))*dx.prod())
dvScaleOf(s) ==
  QRound(QDiv(s.forcing_rate, QMul(TransferSum(s), dxProd(s))))

\* A call of a method gives [err, s, rng, loc]: the exception raised ("" if
\* none), the instance and the generators after it, and, per process, the
\* locals of the call that differ between processes
NoLoc(s) == [r \in 1 .. s.size |-> <<>>]
Done(s, rng) == [err |-> "", s |-> s, rng |-> rng, loc |-> NoLoc(s)]
Raised(e, s, rng) == [err |-> e, s |-> s, rng |-> rng, loc |-> NoLoc(s)]

\* **kwargs: the set of keywords passed and the value of random_seed
KwNone == [keys |-> {}, random_seed |-> NoneArg]
KwSeed(rseed) == [keys |-> {"random_seed"}, random_seed |-> rseed]

\* self.omga[i] = irfft3(self.comm, self.S_hat[i])
Forcing_omga(s) == [s EXCEPT !.omga = VIrfft3(s.nx, s.S_hat)]

\* self.dU += self.S_hat
AddSource(s) == [s EXCEPT !.dU = VKAdd(s.dU, s.S_hat)]

\* self.get_random_HIT_spectrum(-5./3., self.nk[-1], rseed);
\* self.S_hat *= self.forcing_filter
RandomForcing_spectrum(s, rng, rseed) ==
  [s EXCEPT !.S_hat =
     VKMul(HIT_spectrum_S_hat(s, rng, Q(-5, 3), QInt(nkOf(s.nx)[3]), rseed),
           s.forcing_filter)]

\* self.dU += dvScale*self.S_hat
RandomForcing_add(s) ==
  [s EXCEPT !.dU = VKAdd(s.dU, VKScale(dvScaleOf(s), s.S_hat))]

\* computeSource_HIT_random_forcing(**kwargs)
computeSource_HIT_random_forcing(s, rng, kwargs) ==
  IF "random_seed" \notin kwargs.keys THEN Raised("KeyError", s, rng)
  ELSE Done(RandomForcing_add(Forcing_omga(
              RandomForcing_spectrum(s, rng, kwargs.random_seed))),
            HIT_spectrum_rng(s, rng, kwargs.random_seed))

\* self.S_hat = self.U_hat*self.forcing_filter
LinearForcing_spectrum(s) ==
  [s EXCEPT !.S_hat = VKMul(s.U_hat, s.forcing_filter)]

\* self.S_hat *= dvScale
LinearForcing_scale(s) ==
  [s EXCEPT !.S_hat = VKScale(dvScaleOf(s), s.S_hat)]

\* computeSource_HIT_linear_forcing(**kwargs)
computeSource_HIT_linear_forcing(s, rng, kwargs) ==
  Done(AddSource(LinearForcing_scale(Forcing_omga(
         LinearForcing_spectrum(s)))), rng)

\* ----------------------------------------------------- the SGS sources

\* self.K[2-j] at mode m, for python's j = j - 1
KRev(nx, m, j) == QInt(KAt(nx, m)[4 - j])

\* A[j, i] = 0.5*irfft3(1j*(K[2-j]*U_hat[i] + K[2-i]*U_hat[j]))
StrainRate(nx, U_hat) ==
  After(U_hat, Ten(LAMBDA j, i :
    PScale(Q(1, 2),
           irfft3(nx, Force([m \in Modes(nx) |->
                     CTimesI(CAdd(CScale(KRev(nx, m, j), U_hat[i][m]),
                                  CScale(KRev(nx, m, i), U_hat[j][m])))])))))

\* R[j, i] = 0.5*irfft3(1j*(K[2-j]*U_hat[i] - K[2-i]*U_hat[j]))
RotationRate(nx, U_hat) ==
  After(U_hat, Ten(LAMBDA j, i :
    PScale(Q(1, 2),
           irfft3(nx, Force([m \in Modes(nx) |->
                     CTimesI(CSub(CScale(KRev(nx, m, j), U_hat[i][m]),
                                  CScale(KRev(nx, m, i), U_hat[j][m])))])))))

\* np.sum(X*Y, axis=(0, 1)) of two tensors
TenDot(nx, X, Y) ==
  After(X, After(Y, Force([p \in Points(nx) |->
    QSumSeq([n \in 1 .. 9 |->
               QMul(X[((n - 1) \div 3) + 1][((n - 1) % 3) + 1][p],
                    Y[((n - 1) \div 3) + 1][((n - 1) % 3) + 1][p])], 9)])))

\* np.sqrt(2.0*np.sum(np.square(A), axis=(0, 1)))
StrainNorm(nx, A) == PSqrt(PScale(QInt(2), TenDot(nx, A, A)))

\* 1j*K[2-j]*F
KDeriv(nx, j, F) ==
  After(F, Force([m \in Modes(nx) |-> CMul(<<Q0, KRev(nx, m, j)>>, F[m])]))

\* S_hat[:] = 0.0; S_hat[i] += 1j*K[2-j]*rfft3(T[j][i]), j = 0, 1, 2, where
\* T[j][i] is the element of the stress tensor that the source pairs with
\* (j, i)
StressDivergence(nx, T) ==
  After(T, Vec(LAMBDA i :
    KAdd(KAdd(KAdd(KFill(nx, C0), KDeriv(nx, 1, rfft3(nx, T[1][i]))),
              KDeriv(nx, 2, rfft3(nx, T[2][i]))),
         KDeriv(nx, 3, rfft3(nx, T[3][i])))))

\* the loop that fills self.A from a velocity, and the one that fills self.R
SGS_strain(s) == [s EXCEPT !.A = StrainRate(s.nx, s.U_hat)]
SGS_rotation(s) == [s EXCEPT !.R = RotationRate(s.nx, s.U_hat)]

\* self.omga[0] = np.sqrt(2.0*np.sum(np.square(self.A), axis=(0, 1)))
SGS_norm(s) == [s EXCEPT !.omga[1] = StrainNorm(s.nx, s.A)]

\* self.omga[0] *= self.smag_coef
Smagorinksy_nuT(s) == [s EXCEPT !.omga[1] = PScale(s.smag_coef, s.omga[1])]

\* self.nuTmax = self.comm.allreduce(np.max(self.omga[0]), op=MPI.MAX)
Smagorinksy_nuTmax(s) == [s EXCEPT !.nuTmax = GlobalMax(s, s.omga[1])]

\* the loop of lines 421-424 without self.S_hat[:] = 0.0 before it
Smagorinksy_divergence_accumulate(s) ==
  [s EXCEPT !.S_hat =
     VKAdd(s.S_hat,
           StressDivergence(s.nx,
                            Ten(LAMBDA j, i : PMul(s.A[j][i], s.omga[1]))))]

\* S_hat[i] += 1j*K[2-j]*rfft3(A[j, i]*omga[0])
Smagorinksy_divergence(s) ==
  [s EXCEPT !.S_hat =
     StressDivergence(s.nx, Ten(LAMBDA j, i : PMul(s.A[j][i], s.omga[1])))]

\* computeSource_Smagorinksy_SGS(**kwargs)
computeSource_Smagorinksy_SGS(s, rng, kwargs) ==
  Done(AddSource(Smagorinksy_divergence(Smagorinksy_nuTmax(
         Smagorinksy_nuT(SGS_norm(SGS_strain(s)))))), rng)

\* self.S_mod_S_ij_les[i, j] = self.A[i, j]*np.sqrt(2.0*S_S_invar)
Nonlinear_tensor1(s, S_S_invar) ==
  [s EXCEPT !.S_mod_S_ij_les =
     Ten(LAMBDA i, j : PMul(s.A[i][j], PSqrt(PScale(QInt(2), S_S_invar))))]

\* tensor2[i, j] += A[i, k]*R[k, j] - R[i, k]*A[k, j], k = 0, 1, 2
Nonlinear_tensor2(s, i, j) ==
  PAdd(PAdd(PAdd(PFill(s.nx, Q0),
                 PSub(PMul(s.A[i][1], s.R[1][j]), PMul(s.R[i][1], s.A[1][j]))),
            PSub(PMul(s.A[i][2], s.R[2][j]), PMul(s.R[i][2], s.A[2][j]))),
       PSub(PMul(s.A[i][3], s.R[3][j]), PMul(s.R[i][3], s.A[3][j])))

\* tensor3[i, j] += A[i, k]*A[k, j], k = 0, 1, 2
Nonlinear_product(s, i, j) ==
  PAdd(PAdd(PAdd(PFill(s.nx, Q0), PMul(s.A[i][1], s.A[1][j])),
            PMul(s.A[i][2], s.A[2][j])),
       PMul(s.A[i][3], s.A[3][j]))

\* if i == j: tensor3[i, j] -= 1/3*S_S_invar
Nonlinear_tensor3(s, S_S_invar, i, j) ==
  IF i = j THEN PSub(Nonlinear_product(s, i, j), PScale(Q(1, 3), S_S_invar))
  ELSE Nonlinear_product(s, i, j)

\* -D**2*(-2*C[0]**2*S_mod_S_ij_les[j, i] + C[1]*tensor2[j, i]
\*        + C[2]*tensor3[j, i])
Nonlinear_tensor(s, S_S_invar, j, i) ==
  PScale(QNeg(QMul(s.D, s.D)),
         PAdd(PAdd(PScale(QMul(QInt(-2), QMul(CConst[1], CConst[1])),
                          s.S_mod_S_ij_les[j][i]),
                   PScale(CConst[2], Nonlinear_tensor2(s, j, i))),
              PScale(CConst[3], Nonlinear_tensor3(s, S_S_invar, j, i))))

Nonlinear_divergence(s, S_S_invar) ==
  [s EXCEPT !.S_hat =
     StressDivergence(s.nx,
                      Ten(LAMBDA j, i : Nonlinear_tensor(s, S_S_invar, j, i)))]

\* the method from the line that sets S_S_invar
Nonlinear_model(s, S_S_invar) ==
  AddSource(Nonlinear_divergence(
              Nonlinear_tensor1(SGS_rotation(s), S_S_invar), S_S_invar))

\* S_S_invar = np.sum(np.square(self.A), axis=(0, 1))
Nonlinear_invariant(s) == Nonlinear_model(s, TenDot(s.nx, s.A, s.A))

\* computeSourse_NonlinearModel_SGS(): the signature takes no keywords
computeSourse_NonlinearModel_SGS(s, rng, kwargs) ==
  IF kwargs.keys # {} THEN Raised("TypeError", s, rng)
  ELSE Done(Nonlinear_invariant(SGS_strain(s)), rng)

\* np.mean of the local part of a physical array on process r (from 0)
LocalMean(s, f, r) ==
  QDiv(QSumSet(f, LocalPoints(s, r)), QInt(Cardinality(LocalPoints(s, r))))

\* lines 498-500: irfft3(U_hat[i], U[i]); U_hat_test[i] = U_hat[i]*test_filter;
\* irfft3(U_hat_test[i], U_test[i])
Dynamic_velocity(s) ==
  [s EXCEPT !.U = VIrfft3(s.nx, s.U_hat),
            !.U_hat_test = VKMul(s.U_hat, s.test_filter)]
Dynamic_test_velocity(s) == [s EXCEPT !.U_test = VIrfft3(s.nx, s.U_hat_test)]

\* self.S_mod_S_ij_les[i, j] = self.A[i, j]*self.omga[0]
Dynamic_tensor1(s) ==
  [s EXCEPT !.S_mod_S_ij_les = Ten(LAMBDA i, j : PMul(s.A[i][j], s.omga[1]))]

\* the loop that fills self.A from the test-filtered velocity
Dynamic_test_strain(s) == [s EXCEPT !.A = StrainRate(s.nx, s.U_hat_test)]

\* lines 527-537: L_dyn and M_dyn, with omga[1] and omga[2] as working
\* memory, which keep the values of the last pass (i = j = 2)
Dynamic_L(s, i, j) ==
  PSub(filter_3D_array(s, PMul(s.U[i], s.U[j]), s.test_scale),
       PMul(s.U_test[i], s.U_test[j]))
Dynamic_M(s, i, j) ==
  PScale(QInt(-2),
         PSub(PScale(QMul(s.D_test, s.D_test), PMul(s.omga[1], s.A[i][j])),
              PScale(QMul(s.D, s.D),
                     filter_3D_array(s, s.S_mod_S_ij_les[i][j], s.test_scale))))
Dynamic_tensors(s) ==
  [s EXCEPT !.L_dyn = Ten(LAMBDA i, j : Dynamic_L(s, i, j)),
            !.M_dyn = Ten(LAMBDA i, j : Dynamic_M(s, i, j)),
            !.omga = <<s.omga[1], PMul(s.omga[1], s.A[3][3]),
                       filter_3D_array(s, s.S_mod_S_ij_les[3][3], s.test_scale)>>]

\* trace = L_dyn[0, 0] + L_dyn[1, 1] + L_dyn[2, 2]; L_dyn[i, i] -= 1/3*trace
Dynamic_deviator(s, trace) ==
  [s EXCEPT !.L_dyn = Ten(LAMBDA i, j :
     IF i = j THEN PSub(s.L_dyn[i][i], PScale(Q(1, 3), trace))
     ELSE s.L_dyn[i][j])]
Dynamic_trace(s) ==
  Dynamic_deviator(s, PAdd(PAdd(s.L_dyn[1][1], s.L_dyn[2][2]), s.L_dyn[3][3]))

\* lines 550-553 on one process: C_s_sqr = np.divide(l_m, m_m);
\* C_s = np.sqrt(C_s_sqr)
Dynamic_Cs(l_m, m_m, C_s_sqr) ==
  [l_m |-> l_m, m_m |-> m_m, C_s_sqr |-> C_s_sqr, C_s |-> QSqrt(C_s_sqr)]

\* l_m = np.mean(L_M); m_m = np.mean(M_M): the means of the local arrays
Dynamic_means(l_m, m_m) == Dynamic_Cs(l_m, m_m, QRound(QDiv(l_m, m_m)))

\* the locals l_m, m_m, C_s_sqr, C_s of every process
Dynamic_locals(s, L_M, M_M) ==
  Force([r \in 1 .. s.size |->
     Dynamic_means(LocalMean(s, L_M, r - 1), LocalMean(s, M_M, r - 1))])

\* self.S_mod_S_ij_les *= 2*(C_s*self.D)**2, each process with its own C_s
Dynamic_scale(s, loc) ==
  [s EXCEPT !.S_mod_S_ij_les = Ten(LAMBDA i, j :
     Force([p \in Points(s.nx) |->
        QMul(s.S_mod_S_ij_les[i][j][p],
             SmagCoef(loc[PRank(s.nx, s.size, p) + 1].C_s, s.D))]))]

\* S_hat[i] += 1j*K[2-j]*rfft3(S_mod_S_ij_les[i, j])
Dynamic_divergence(s) ==
  [s EXCEPT !.S_hat =
     StressDivergence(s.nx, Ten(LAMBDA j, i : s.S_mod_S_ij_les[i][j]))]

Dynamic_source(s, rng, loc) ==
  [err |-> "", s |-> AddSource(Dynamic_divergence(Dynamic_scale(s, loc))),
   rng |-> rng, loc |-> loc]

\* lines 542-546: L_M += L_dyn[i, j]*M_dyn[i, j]; M_M += M_dyn[i, j]**2
Dynamic_model(s, rng) ==
  Dynamic_source(s, rng,
                 Dynamic_locals(s, TenDot(s.nx, s.L_dyn, s.M_dyn),
                                TenDot(s.nx, s.M_dyn, s.M_dyn)))

\* computeSource_DynamicSmagorinksy_SGS(**kwargs)
computeSource_DynamicSmagorinksy_SGS(s, rng, kwargs) ==
  Dynamic_model(Dynamic_trace(Dynamic_tensors(SGS_norm(Dynamic_test_strain(
     Dynamic_tensor1(SGS_norm(SGS_strain(
       Dynamic_test_velocity(Dynamic_velocity(s))))))))), rng)

\* ------------------------------------------------ advection-diffusion

\* 1j*(Ka*Fb - Kb*Fa) for the curl
CurlTerm(nx, a, Fb, b, Fa) ==
  After(Fa, After(Fb, Force([m \in Modes(nx) |->
    CTimesI(CSub(CScale(QInt(KAt(nx, m)[a]), Fb[m]),
                 CScale(QInt(KAt(nx, m)[b]), Fa[m])))])))

\* lines 579-587: the vorticity, omga[2] first
AD_vorticity(s) ==
  [s EXCEPT !.omga =
     <<irfft3(s.nx, CurlTerm(s.nx, 2, s.U_hat[3], 3, s.U_hat[2])),
       irfft3(s.nx, CurlTerm(s.nx, 3, s.U_hat[1], 1, s.U_hat[3])),
       irfft3(s.nx, CurlTerm(s.nx, 1, s.U_hat[2], 2, s.U_hat[1]))>>]

\* the transforms of lines 591-596 adding to dU instead of filling it
AD_convection_accumulate(s) ==
  [s EXCEPT !.dU =
     VKAdd(s.dU,
       <<rfft3(s.nx, PSub(PMul(s.U[2], s.omga[3]), PMul(s.U[3], s.omga[2]))),
         rfft3(s.nx, PSub(PMul(s.U[3], s.omga[1]), PMul(s.U[1], s.omga[3]))),
         rfft3(s.nx, PSub(PMul(s.U[1], s.omga[2]), PMul(s.U[2], s.omga[1])))>>)]

\* lines 591-596: the cross product of velocity and vorticity, transformed
AD_convection(s) ==
  [s EXCEPT !.dU =
     <<rfft3(s.nx, PSub(PMul(s.U[2], s.omga[3]), PMul(s.U[3], s.omga[2]))),
       rfft3(s.nx, PSub(PMul(s.U[3], s.omga[1]), PMul(s.U[1], s.omga[3]))),
       rfft3(s.nx, PSub(PMul(s.U[1], s.omga[2]), PMul(s.U[2], s.omga[1])))>>]

\* self.dU -= self.nu*self.Ksq*self.U_hat
AD_diffusion(s) ==
  [s EXCEPT !.dU = Vec(LAMBDA i : Force([m \in Modes(s.nx) |->
     CSub(s.dU[i][m],
          CScale(QMul(s.nu, QInt(KsqAt(s.nx, m))), s.U_hat[i][m]))]))]

\* computeAD_vorticity_formulation(**kwargs)
computeAD_vorticity_formulation(s) ==
  AD_diffusion(AD_convection(AD_vorticity(s)))

\* ------------------------------------------------------ new_dt_const_nu

\* python's min and max of floats: the first element, replaced by each later
\* element that compares smaller (greater); a comparison with NaN is false
PyMin2(a, b) == IF QLt(b, a) THEN b ELSE a
PyMax2(a, b) == IF QLt(a, b) THEN b ELSE a

\* the locals of new_dt_const_nu(cfl)
new_dt_locals(s, cfl) ==
  LET u1m == GlobalMax(s, s.U[1])
      u2m == GlobalMax(s, s.U[2])
      u3m == GlobalMax(s, s.U[3])
      dx == dxOf(s)
      dtMinHydro == QMul(cfl, PyMin2(PyMin2(QDiv(dx[1], u1m), QDiv(dx[2], u2m)),
                                     QDiv(dx[3], u3m)))
      mdx == PyMin2(PyMin2(dx[1], dx[2]), dx[3])
      dtMinDiff == QDiv(QMul(mdx, mdx),
                        PyMax2(QMul(QInt(2), s.nu), QDiv(s.nuTmax, cfl)))
  IN  [dtMinHydro |-> dtMinHydro, dtMinDiff |-> dtMinDiff,
       dtMin |-> PyMin2(dtMinHydro, dtMinDiff)]

\* new_dt_const_nu(cfl): the timestep returned
new_dt_const_nu(s, cfl) == new_dt_locals(s, cfl).dtMin

\* ---------------------------------------------------- collective calls

\* What one process (rank r, from 0) calls in an operation: the collective
\* calls "rfft3", "irfft3", "allreduce", and "print".  The sequences follow
\* the control flow of the code on that process.
RECURSIVE Rep(_, _)
Rep(n, x) == IF n = 0 THEN <<>> ELSE Rep(n - 1, x) \o x

\* a reduction that only rank 0 enters
rank0_allreduce(r) == IF r = 0 THEN <<"allreduce">> ELSE <<>>

\* if self.comm.rank == 0: print(...)
rank0_print(r) == IF r = 0 THEN <<"print">> ELSE <<>>

filter_3D_array_calls(s, scale_k) ==
  <<"rfft3">>
  \o (IF scale_k = s.les_scale \/ scale_k = s.test_scale THEN <<>>
      ELSE <<"print">> \o filter_kernel_coll("spectral"))
  \o <<"irfft3">>

forcing_calls == Rep(3, <<"irfft3">>) \o <<"allreduce">>

Smagorinksy_calls ==
  Rep(9, <<"irfft3">>) \o <<"allreduce">> \o Rep(9, <<"rfft3">>)

NonlinearModel_calls ==
  Rep(9, <<"irfft3">>) \o Rep(9, <<"irfft3">>) \o Rep(9, <<"rfft3">>)

DynamicSmagorinksy_calls(s, r) ==
  Rep(3, <<"irfft3", "irfft3">>)
  \o Rep(9, <<"irfft3">>) \o Rep(9, <<"irfft3">>)
  \o Rep(9, filter_3D_array_calls(s, s.test_scale)
            \o filter_3D_array_calls(s, s.test_scale))
  \o rank0_print(r)
  \o Rep(9, <<"rfft3">>)

computeAD_calls == Rep(3, <<"irfft3">>) \o Rep(3, <<"rfft3">>)

new_dt_const_nu_calls(s, cfl, r) ==
  Rep(3, <<"allreduce">>)
  \o (IF QLt(new_dt_locals(s, cfl).dtMinDiff, new_dt_locals(s, cfl).dtMinHydro)
      THEN rank0_print(r) ELSE <<>>)

\* the same sequence on every process
AllRanks(size, c) == [r \in 1 .. size |-> c]

\* ----------------------------------------------------- calling a source

SourceNames ==
  {"computeSource_HIT_random_forcing", "computeSource_HIT_linear_forcing",
   "computeSource_Smagorinksy_SGS", "computeSourse_NonlinearModel_SGS",
   "computeSource_DynamicSmagorinksy_SGS"}

\* Source(**kwargs) for a bound method of the instance
CallSource(name, s, rng, kwargs) ==
  CASE name = "computeSource_HIT_random_forcing" ->
         computeSource_HIT_random_forcing(s, rng, kwargs)
    [] name = "computeSource_HIT_linear_forcing" ->
         computeSource_HIT_linear_forcing(s, rng, kwargs)
    [] name = "computeSource_Smagorinksy_SGS" ->
         computeSource_Smagorinksy_SGS(s, rng, kwargs)
    [] name = "computeSourse_NonlinearModel_SGS" ->
         computeSourse_NonlinearModel_SGS(s, rng, kwargs)
    [] name = "computeSource_DynamicSmagorinksy_SGS" ->
         computeSource_DynamicSmagorinksy_SGS(s, rng, kwargs)

\* the calls of process r in Source(**kwargs), given how the call ended
SourceCalls(name, s, kwargs, r) ==
  CASE name = "computeSource_HIT_random_forcing" ->
         IF "random_seed" \notin kwargs.keys THEN <<>> ELSE forcing_calls
    [] name = "computeSource_HIT_linear_forcing" -> forcing_calls
    [] name = "computeSource_Smagorinksy_SGS" -> Smagorinksy_calls
    [] name = "computeSourse_NonlinearModel_SGS" ->
         IF kwargs.keys # {} THEN <<>> ELSE NonlinearModel_calls
    [] name = "computeSource_DynamicSmagorinksy_SGS" ->
         DynamicSmagorinksy_calls(s, r)

\* ------------------------------------------------------- the RK4 driver

\* a = [1./6., 1./3., 1./3., 1./6.], b = [0.5, 0.5, 1.]
RK4_a == <<Q(1, 6), Q(1, 3), Q(1, 3), Q(1, 6)>>
RK4_b == <<Q(1, 2), Q(1, 2), Q1>>

\* RK4_integrate's loop with the filter and the projection applied after
\* each source instead of once after the last one
RK4_after_per_source(at, nSources) ==
  CASE at.pc = "irfft3" -> [at EXCEPT !.pc = "computeAD"]
    [] at.pc = "computeAD" ->
         IF nSources > 0 THEN [at EXCEPT !.pc = "Source", !.n = 1]
         ELSE [at EXCEPT !.pc = "filter"]
    [] at.pc = "Source" -> [at EXCEPT !.pc = "filter"]
    [] at.pc = "filter" -> [at EXCEPT !.pc = "project"]
    [] at.pc = "project" ->
         IF at.n < nSources THEN [at EXCEPT !.pc = "Source", !.n = at.n + 1]
         ELSE [at EXCEPT !.pc = "update"]
    [] at.pc = "update" ->
         IF at.rk < 3 THEN [at EXCEPT !.pc = "irfft3", !.rk = at.rk + 1,
                                      !.n = 0]
         ELSE [at EXCEPT !.pc = "final"]
    [] at.pc = "final" -> [at EXCEPT !.pc = "idle"]

\* Where RK4_integrate stands: the statement to execute next (pc), the stage
\* rk (from 0) and the index n of the source to call next.  RK4_after gives
\* the position that follows the statement at pc.
RK4_after(at, nSources) ==
  CASE at.pc = "irfft3" -> [at EXCEPT !.pc = "computeAD"]
    [] at.pc = "computeAD" ->
         IF nSources > 0 THEN [at EXCEPT !.pc = "Source", !.n = 1]
         ELSE [at EXCEPT !.pc = "filter"]
    [] at.pc = "Source" ->
         IF at.n < nSources THEN [at EXCEPT !.n = at.n + 1]
         ELSE [at EXCEPT !.pc = "filter"]
    [] at.pc = "filter" -> [at EXCEPT !.pc = "project"]
    [] at.pc = "project" -> [at EXCEPT !.pc = "update"]
    [] at.pc = "update" ->
         IF at.rk < 3 THEN [at EXCEPT !.pc = "irfft3", !.rk = at.rk + 1, !.n = 0]
         ELSE [at EXCEPT !.pc = "final"]
    [] at.pc = "final" -> [at EXCEPT !.pc = "idle"]

\* line 663: self.dU *= self.les_filter
RK4_filter(s) ==
  [s EXCEPT !.dU = Vec(LAMBDA i : Force([m \in Modes(s.nx) |->
     CMulKernel(s.dU[i][m], s.les_filter[m])]))]

\* dU left as the sources made it
RK4_no_project(s) == s

\* line 671: self.dU -= np.sum(self.dU*self.K_Ksq, axis=0)*self.K
RK4_project(s) == [s EXCEPT !.dU = Project(s.nx, s.dU)]

\* self.U_hat[:] = self.U_hat0 + b[rk]*dt*self.dU  (rk < 3)
\* self.U_hat1[:] += a[rk]*dt*self.dU
RK4_update(s, rk, dt) ==
  [s EXCEPT
     !.U_hat = IF rk < 3
               THEN VKAdd(s.U_hat0, VKScale(QMul(RK4_b[rk + 1], dt), s.dU))
               ELSE s.U_hat,
     !.U_hat1 = VKAdd(s.U_hat1, VKScale(QMul(RK4_a[rk + 1], dt), s.dU))]

\* ================================================================ state

\* bounds of the exploration
MaxGarbage == 1
MaxEntropy == 1
MaxSeed == 2
MaxSources == 2
MaxOps == 2
MaxSteps == 1

VARIABLES
  comm,    \* the number of processes of the communicator
  slv,     \* the spectralLES instance, or NoInstance
  rng,     \* the state of numpy's global generator on each process
  rk4,     \* the frame of RK4_integrate: dt, Sources, kwargs and position
  trace,   \* what the current (last) RK4_integrate has executed, in order
  last,    \* the last operation called: arguments, exception, result,
           \* per-process locals and calls, and the velocity and dU before it
  memo,    \* every Initialize_HIT_random_spectrum call: arguments, the
           \* generators before it, and the fields it produced
  nops,    \* public operations called so far
  nsteps   \* RK4_integrate calls so far

vars == <<comm, slv, rng, rk4, trace, last, memo, nops, nsteps>>

NoInstance == [err |-> "no instance"]
Live(s) == s.err = ""

Idle ==
  [dt |-> Q0, Sources |-> <<>>, kwargs |-> KwNone,
   at |-> [pc |-> "idle", rk |-> 0, n |-> 0]]

NoCall ==
  [op |-> "", args |-> <<>>, err |-> "", ret |-> <<>>, loc |-> <<>>,
   calls |-> <<>>, pre |-> <<>>]

Snapshot(s) == [U |-> s.U, U_hat |-> s.U_hat, dU |-> s.dU]

CanCall == rk4.at.pc = "idle" /\ nops < MaxOps

\* ------------------------------------------------------------- actions

\* spectralLES(comm, L, nx, nu, Gtype, les_scale, test_scale, eps_inj)
Construct(L_arg, nx_arg, nu, Gtype, les_scale, test_scale, eps_inj, g) ==
  /\ rk4.at.pc = "idle" /\ ~Live(slv)
  /\ \E r \in {spectralLES_init(comm, L_arg, nx_arg, nu, Gtype, les_scale,
                               test_scale, eps_inj, g)} :
         /\ slv' = IF r.err = "" THEN r ELSE NoInstance
         /\ last' = [op |-> "__init__",
                     args |-> [L |-> L_arg, nx |-> nx_arg, Gtype |-> Gtype],
                     err |-> r.err, ret |-> <<>>, loc |-> <<>>,
                     calls |-> AllRanks(comm,
                                 spectralLES_init_coll(L_arg, nx_arg, Gtype)),
                     pre |-> <<>>]
  /\ UNCHANGED <<comm, rng, rk4, trace, memo, nops, nsteps>>

\* filter_kernel(kf, Gtype)
FilterKernelCall(kf, Gtype) ==
  /\ CanCall /\ Live(slv)
  /\ \E r \in {filter_kernel(slv.nx, comm, slv.L, kf, Gtype)} :
         last' = [op |-> "filter_kernel",
                  args |-> [kf |-> kf, Gtype |-> Gtype],
                  err |-> r.err, ret |-> r.Ghat, loc |-> <<>>,
                  calls |-> AllRanks(comm, filter_kernel_coll(Gtype)),
                  pre |-> Snapshot(slv)]
  /\ nops' = nops + 1
  /\ UNCHANGED <<comm, slv, rng, rk4, trace, memo, nsteps>>

\* filter_3D_array(self.U[i], scale_k)
Filter3DCall(i, scale_k) ==
  /\ CanCall /\ Live(slv)
  /\ last' = [op |-> "filter_3D_array",
              args |-> [i |-> i, scale_k |-> scale_k],
              err |-> "", ret |-> filter_3D_array(slv, slv.U[i], scale_k),
              loc |-> <<>>,
              calls |-> AllRanks(comm, filter_3D_array_calls(slv, scale_k)),
              pre |-> Snapshot(slv)]
  /\ nops' = nops + 1
  /\ UNCHANGED <<comm, slv, rng, rk4, trace, memo, nsteps>>

\* Initialize_Taylor_Green_vortex()
InitTG ==
  /\ CanCall /\ Live(slv)
  /\ slv' = Initialize_Taylor_Green_vortex(slv)
  /\ last' = [op |-> "Initialize_Taylor_Green_vortex", args |-> <<>>,
              err |-> "", ret |-> <<>>, loc |-> <<>>,
              calls |-> AllRanks(comm, Initialize_Taylor_Green_vortex_coll),
              pre |-> Snapshot(slv)]
  /\ nops' = nops + 1
  /\ UNCHANGED <<comm, rng, rk4, trace, memo, nsteps>>

\* Initialize_HIT_random_spectrum(Urms, k_exp, k_peak, rseed)
InitHIT(Urms, k_exp, k_peak, rseed) ==
  /\ CanCall /\ Live(slv)
  /\ \E s \in {Initialize_HIT_random_spectrum(slv, rng, Urms, k_exp, k_peak,
                                               rseed)},
        a \in {[Urms |-> Urms, k_exp |-> k_exp, k_peak |-> k_peak,
                rseed |-> rseed]} :
         /\ slv' = s
         /\ memo' = memo \cup {[args |-> a, rng |-> rng,
                                U_hat |-> s.U_hat, U |-> s.U]}
         /\ last' = [op |-> "Initialize_HIT_random_spectrum", args |-> a,
                     err |-> "", ret |-> <<>>, loc |-> <<>>,
                     calls |-> AllRanks(comm,
                                        Initialize_HIT_random_spectrum_coll),
                     pre |-> Snapshot(slv)]
  /\ rng' = HIT_spectrum_rng(slv, rng, rseed)
  /\ nops' = nops + 1
  /\ UNCHANGED <<comm, rk4, trace, nsteps>>

\* np.random.rand() in the driver, on every process
Draw ==
  /\ CanCall
  /\ rng' = [r \in 1 .. comm |-> RngStep(rng[r])]
  /\ last' = [NoCall EXCEPT !.op = "np.random.rand"]
  /\ nops' = nops + 1
  /\ UNCHANGED <<comm, slv, rk4, trace, memo, nsteps>>

\* a source evaluator called by the driver: Source(**kwargs)
SourceCall(name, kwargs) ==
  /\ CanCall /\ Live(slv)
  /\ \E r \in {CallSource(name, slv, rng, kwargs)} :
         /\ slv' = r.s
         /\ rng' = r.rng
         /\ last' = [op |-> name, args |-> [kwargs |-> kwargs],
                     err |-> r.err, ret |-> <<>>, loc |-> r.loc,
                     calls |-> [q \in 1 .. comm |->
                                  SourceCalls(name, slv, kwargs, q - 1)],
                     pre |-> Snapshot(slv)]
  /\ nops' = nops + 1
  /\ UNCHANGED <<comm, rk4, trace, memo, nsteps>>

\* computeAD_vorticity_formulation()
ADCall ==
  /\ CanCall /\ Live(slv)
  /\ slv' = computeAD_vorticity_formulation(slv)
  /\ last' = [op |-> "computeAD_vorticity_formulation", args |-> <<>>,
              err |-> "", ret |-> <<>>, loc |-> <<>>,
              calls |-> AllRanks(comm, computeAD_calls),
              pre |-> Snapshot(slv)]
  /\ nops' = nops + 1
  /\ UNCHANGED <<comm, rng, rk4, trace, memo, nsteps>>

\* new_dt_const_nu(cfl)
NewDtCall(cfl) ==
  /\ CanCall /\ Live(slv)
  /\ last' = [op |-> "new_dt_const_nu", args |-> [cfl |-> cfl],
              err |-> "", ret |-> new_dt_const_nu(slv, cfl), loc |-> <<>>,
              calls |-> [q \in 1 .. comm |->
                           new_dt_const_nu_calls(slv, cfl, q - 1)],
              pre |-> Snapshot(slv)]
  /\ nops' = nops + 1
  /\ UNCHANGED <<comm, slv, rng, rk4, trace, memo, nsteps>>

\* RK4_integrate(dt, *Sources, **kwargs), lines 647-650: the call and
\* self.U_hat1[:] = self.U_hat0[:] = self.U_hat.  computeAD is the attribute
\* the driver binds to computeAD_vorticity_formulation.
RK4Call(dt, Sources, kwargs) ==
  /\ CanCall /\ Live(slv) /\ nsteps < MaxSteps
  /\ slv' = [slv EXCEPT !.U_hat0 = slv.U_hat, !.U_hat1 = slv.U_hat]
  /\ rk4' = [dt |-> dt, Sources |-> Sources, kwargs |-> kwargs,
             at |-> [pc |-> "irfft3", rk |-> 0, n |-> 0]]
  /\ trace' = <<>>
  /\ last' = [op |-> "RK4_integrate",
              args |-> [dt |-> dt, Sources |-> Sources, kwargs |-> kwargs],
              err |-> "", ret |-> <<>>, loc |-> <<>>,
              calls |-> AllRanks(comm, <<>>), pre |-> Snapshot(slv)]
  /\ nops' = nops + 1
  /\ nsteps' = nsteps + 1
  /\ UNCHANGED <<comm, rng, memo>>

Log(c) == [q \in 1 .. comm |-> last.calls[q] \o c]
Advance == [rk4 EXCEPT !.at = RK4_after(rk4.at, Len(rk4.Sources))]

\* lines 654-656: self.U[i] = irfft3(self.comm, self.U_hat[i])
RK4Irfft3 ==
  /\ rk4.at.pc = "irfft3"
  /\ slv' = [slv EXCEPT !.U = VIrfft3(slv.nx, slv.U_hat)]
  /\ trace' = Append(trace, "irfft3")
  /\ last' = [last EXCEPT !.calls = Log(Rep(3, <<"irfft3">>))]
  /\ rk4' = Advance
  /\ UNCHANGED <<comm, rng, memo, nops, nsteps>>

\* line 658: self.computeAD()
RK4ComputeAD ==
  /\ rk4.at.pc = "computeAD"
  /\ slv' = computeAD_vorticity_formulation(slv)
  /\ trace' = Append(trace, "computeAD")
  /\ last' = [last EXCEPT !.calls = Log(computeAD_calls)]
  /\ rk4' = Advance
  /\ UNCHANGED <<comm, rng, memo, nops, nsteps>>

\* lines 659-660: Source(**kwargs); an exception leaves RK4_integrate
RK4Source ==
  /\ rk4.at.pc = "Source"
  /\ \E name \in {rk4.Sources[rk4.at.n]} :
     \E r \in {CallSource(name, slv, rng, rk4.kwargs)} :
         /\ slv' = r.s
         /\ rng' = r.rng
         /\ trace' = Append(trace, name)
         /\ last' = [last EXCEPT
                       !.err = r.err, !.loc = r.loc,
                       !.calls = [q \in 1 .. comm |->
                                    last.calls[q]
                                    \o SourceCalls(name, slv, rk4.kwargs, q - 1)]]
         /\ rk4' = IF r.err = "" THEN Advance
                   ELSE [rk4 EXCEPT !.at.pc = "idle"]
  /\ UNCHANGED <<comm, memo, nops, nsteps>>

\* line 663: self.dU *= self.les_filter
RK4Filter ==
  /\ rk4.at.pc = "filter"
  /\ slv' = RK4_filter(slv)
  /\ trace' = Append(trace, "filter")
  /\ rk4' = Advance
  /\ UNCHANGED <<comm, rng, last, memo, nops, nsteps>>

\* line 671: self.dU -= np.sum(self.dU*self.K_Ksq, axis=0)*self.K
RK4Project ==
  /\ rk4.at.pc = "project"
  /\ slv' = RK4_project(slv)
  /\ trace' = Append(trace, "project")
  /\ rk4' = Advance
  /\ UNCHANGED <<comm, rng, last, memo, nops, nsteps>>

\* lines 673-675: the updates of U_hat and U_hat1; last.ret keeps the dU of
\* every stage
RK4Update ==
  /\ rk4.at.pc = "update"
  /\ slv' = RK4_update(slv, rk4.at.rk, rk4.dt)
  /\ trace' = Append(trace, "update")
  /\ last' = [last EXCEPT !.ret = Append(last.ret, slv.dU)]
  /\ rk4' = Advance
  /\ UNCHANGED <<comm, rng, memo, nops, nsteps>>

\* lines 677-679: self.U[i] = irfft3(self.comm, self.U_hat[i]); return
RK4Final ==
  /\ rk4.at.pc = "final"
  /\ slv' = [slv EXCEPT !.U = VIrfft3(slv.nx, slv.U_hat)]
  /\ trace' = Append(trace, "irfft3")
  /\ last' = [last EXCEPT !.calls = Log(Rep(3, <<"irfft3">>))]
  /\ rk4' = Advance
  /\ UNCHANGED <<comm, rng, memo, nops, nsteps>>

RK4Step ==
  \/ RK4Irfft3 \/ RK4ComputeAD \/ RK4Source \/ RK4Filter \/ RK4Project
  \/ RK4Update \/ RK4Final

\* -------------------------------------------------------- argument menus

\* the source lists of at most n sources
RECURSIVE SourceLists(_)
SourceLists(n) ==
  IF n = 0 THEN {<<>>}
  ELSE SourceLists(n - 1)
       \cup {Append(l, x) : l \in {l \in SourceLists(n - 1) : Len(l) = n - 1},
                            x \in SourceNames}

SeedOne == IntArg(1)
SeedArgs == {NoneArg} \cup {IntArg(k) : k \in -1 .. MaxSeed}
Kwargs == {KwNone, KwSeed(SeedOne)}
Garbages == 0 .. MaxGarbage
Entropy == 0 .. MaxEntropy

Start(size, s) ==
  /\ comm = size
  /\ slv = s
  /\ rk4 = Idle
  /\ trace = <<>>
  /\ last = NoCall
  /\ memo = {}
  /\ nops = 0
  /\ nsteps = 0

\* ------------------------------------------------------- specifications

\* one RK4_integrate on a column of four points, one process
ColumnSolver(nu, g) ==
  spectralLES_init(1, Scalar(QInt(3)), Iterable(<<1, 1, 4>>), nu,
                   "spectral", QInt(3), QInt(2), Q1, g)

InitRK ==
  /\ \E g \in Garbages : Start(1, ColumnSolver(Q1, g))
  /\ rng = [r \in 1 .. 1 |-> 0]

NextRK ==
  \/ InitTG
  \/ InitHIT(Q1, QInt(-1), QInt(2), SeedOne)
  \/ \E Sources \in SourceLists(MaxSources), kwargs \in Kwargs :
       RK4Call(Q(1, 4), Sources, kwargs)
  \/ RK4Step

SpecRK == InitRK /\ [][NextRK]_vars

\* direct calls of the initializers, the sources and the
\* advection-diffusion evaluator on a 4 x 2 x 1 grid, one or two processes
PlaneSolver(size, g) ==
  spectralLES_init(size, Scalar(QInt(3)), Iterable(<<4, 2, 1>>), Q1,
                   "spectral", QInt(3), QInt(2), Q1, g)

InitOps ==
  /\ \E size \in {1, 2}, g \in Garbages : Start(size, PlaneSolver(size, g))
  /\ rng = [r \in 1 .. comm |-> 0]

NextOps ==
  \/ InitTG
  \/ InitHIT(Q1, QInt(-1), QInt(2), SeedOne)
  \/ \E name \in SourceNames, kwargs \in Kwargs : SourceCall(name, kwargs)
  \/ ADCall

SpecOps == InitOps /\ [][NextOps]_vars

\* every public operation once or twice on a 2 x 2 x 1 grid split over two
\* processes, from the construction on
NoSolver(size) ==
  /\ comm = size
  /\ slv = NoInstance
  /\ rk4 = Idle
  /\ trace = <<>>
  /\ last = NoCall
  /\ memo = {}
  /\ nops = 0
  /\ nsteps = 0

Gtypes == {"tophat", "comp_exp", "spectral"}
PlaneL == Scalar(QInt(3))
PlaneNx == Iterable(<<2, 2, 1>>)
OneSource == {<<>>} \cup {<<name>> : name \in SourceNames}

InitColl ==
  /\ NoSolver(2)
  /\ rng = [r \in 1 .. comm |-> 0]

NextColl ==
  \/ \E Gtype \in Gtypes, g \in Garbages :
       Construct(PlaneL, PlaneNx, Q1, Gtype, QInt(3), QInt(2), Q1, g)
  \/ \E Gtype \in Gtypes \cup {"gaussian"} : FilterKernelCall(QInt(2), Gtype)
  \/ \E scale_k \in {QInt(3), QInt(2), Q1} : Filter3DCall(1, scale_k)
  \/ InitTG
  \/ InitHIT(Q1, QInt(-1), QInt(2), SeedOne)
  \/ \E name \in SourceNames, kwargs \in Kwargs : SourceCall(name, kwargs)
  \/ ADCall
  \/ NewDtCall(Q(1, 2))
  \/ \E Sources \in OneSource, kwargs \in Kwargs :
       RK4Call(Q(1, 4), Sources, kwargs)
  \/ RK4Step

SpecColl == InitColl /\ [][NextColl]_vars

\* the constructor on every shape of nx and L and every kernel label, then
\* filter_kernel, on one or two processes
NxArgs ==
  {Scalar(2), Iterable(<<2>>), Iterable(<<2, 2, 4>>), Iterable(<<2, 2>>)}
LArgs ==
  {Scalar(QInt(4)), Iterable(<<QInt(4)>>),
   Iterable(<<QInt(4), QInt(8), QInt(4)>>), Iterable(<<QInt(4), QInt(4)>>)}

InitKernel ==
  /\ \E size \in {1, 2} : NoSolver(size)
  /\ rng = [r \in 1 .. comm |-> 0]

NextKernel ==
  \/ \E L_arg \in LArgs, nx_arg \in NxArgs, Gtype \in Gtypes \cup {"gaussian"} :
       Construct(L_arg, nx_arg, Q1, Gtype, QInt(2), Q1, Q1, 0)
  \/ \E kf \in {Q(1, 2), QInt(2)}, Gtype \in Gtypes \cup {"gaussian"} :
       FilterKernelCall(kf, Gtype)

SpecKernel == InitKernel /\ [][NextKernel]_vars

\* the random initial condition regenerated, with other draws in between,
\* on the column of four points
InitSeed ==
  /\ \E g \in Garbages : Start(1, ColumnSolver(Q1, g))
  /\ rng \in [1 .. 1 -> Entropy]

NextSeed ==
  \/ \E rseed \in SeedArgs : InitHIT(Q1, QInt(-1), QInt(2), rseed)
  \/ Draw

SpecSeed == InitSeed /\ [][NextSeed]_vars

\* the timestep estimator on a 2 x 2 x 1 grid, one or two processes, whose
\* velocity array holds a uniform flow in each component: what the driver
\* has assigned to self.U, or what np.empty (line 172) left there
DtSolver(size) ==
  spectralLES_init(size, PlaneL, PlaneNx, Q1, "spectral", QInt(3), QInt(2),
                   Q1, 0)
UniformFlow(s, c) == [s EXCEPT !.U = Vec(LAMBDA i : PFill(s.nx, QInt(c[i])))]
Flows == (-1 .. 1) \X (-1 .. 1) \X (-1 .. 1)
Cfls == {Q(1, 2), Q1}

InitDt ==
  /\ \E size \in {1, 2}, c \in Flows :
       Start(size, UniformFlow(DtSolver(size), c))
  /\ rng = [r \in 1 .. comm |-> 0]

NextDt ==
  \/ \E cfl \in Cfls : NewDtCall(cfl)
  \/ InitTG
  \/ SourceCall("computeSource_Smagorinksy_SGS", KwNone)

SpecDt == InitDt /\ [][NextDt]_vars

\* ================================================================ claims

InRK4 == last.op = "RK4_integrate"
Returned == InRK4 /\ rk4.at.pc = "idle" /\ last.err = ""

\* ---------------------------------------------------------------- C1

\* U_hat0 + dt*(dU_1/6 + dU_2/3 + dU_3/3 + dU_4/6) of the call that returned
WeightedSum ==
  LET d == last.ret
  IN  VKAdd(last.pre.U_hat,
            VKScale(last.args.dt,
                    VKAdd(VKAdd(VKScale(Q(1, 6), d[1]), VKScale(Q(1, 3), d[2])),
                          VKAdd(VKScale(Q(1, 3), d[3]), VKScale(Q(1, 6), d[4])))))

\* C1: when RK4_integrate(dt, *Sources) has returned, U_hat is the weighted
\* sum U_hat0 + dt*(dU_1/6 + dU_2/3 + dU_3/3 + dU_4/6) of the four filtered,
\* projected stage right-hand sides, and U is the inverse transform of
\* that U_hat.
C1_FinalIsWeightedSum ==
  Returned =>
    /\ slv.U_hat = WeightedSum
    /\ slv.U = VIrfft3(slv.nx, slv.U_hat)

\* ---------------------------------------------------------------- C2

ExpectedStage(Sources) ==
  <<"irfft3", "computeAD">> \o Sources \o <<"filter", "project", "update">>

ExpectedTrace(Sources) ==
  ExpectedStage(Sources) \o ExpectedStage(Sources) \o ExpectedStage(Sources)
  \o ExpectedStage(Sources) \o <<"irfft3">>

IsPrefix(a, b) == Len(a) <= Len(b) /\ a = SubSeq(b, 1, Len(a))

\* C2: in each of the 4 stages RK4_integrate inverse-transforms U_hat, calls
\* the advection-diffusion evaluator, then every source once in the caller's
\* order, then filters dU once, then projects dU once, and only then updates
\* U_hat and U_hat1; the filter and the projection never come between two
\* sources.
C2_StageOrder ==
  InRK4 =>
    /\ IsPrefix(trace, ExpectedTrace(last.args.Sources))
    /\ Returned => trace = ExpectedTrace(last.args.Sources)

C2_Witness ==
  /\ Returned
  /\ Len(last.args.Sources) = 2
  /\ last.args.Sources[1] # last.args.Sources[2]
  /\ Len(trace) = 29

\* ---------------------------------------------------------------- C3

\* sum over i of K[i]*V[i] at mode m
DivAt(nx, V, m) ==
  CAdd(CAdd(CScale(QInt(KAt(nx, m)[1]), V[1][m]),
            CScale(QInt(KAt(nx, m)[2]), V[2][m])),
       CScale(QInt(KAt(nx, m)[3]), V[3][m]))

FiniteAt(V, m) == \A i \in 1 .. 3 : CIsFinite(V[i][m])

DivFree(nx, V) == \A m \in Modes(nx) : DivAt(nx, V, m) = C0

DivFreeWhereFinite(nx, V) ==
  \A m \in Modes(nx) : FiniteAt(V, m) => DivAt(nx, V, m) = C0

\* C3: if U_hat is divergence-free when RK4_integrate is called then, for any
\* sources and dt, at every mode where the values are finite the dU of every
\* update, U_hat after every stage, U_hat1 after every stage and U_hat on
\* return are divergence-free.
C3_DivFreeWhereFinite ==
  (InRK4 /\ DivFree(slv.nx, last.pre.U_hat)) =>
    /\ DivFreeWhereFinite(slv.nx, slv.U_hat)
    /\ DivFreeWhereFinite(slv.nx, slv.U_hat1)
    /\ rk4.at.pc = "update" => DivFreeWhereFinite(slv.nx, slv.dU)
    /\ \A k \in 1 .. Len(last.ret) : DivFreeWhereFinite(slv.nx, last.ret[k])

\* a later stage of a call on a divergence-free, non-zero field whose
\* combined right-hand side has a divergence before the projection removes it
C3_Witness ==
  /\ InRK4 /\ DivFree(slv.nx, last.pre.U_hat)
  /\ rk4.at.pc = "project" /\ rk4.at.rk >= 1
  /\ Len(rk4.Sources) > 0
  /\ slv.U_hat # last.pre.U_hat
  /\ \A m \in Modes(slv.nx) : FiniteAt(slv.dU, m)
  /\ ~DivFree(slv.nx, slv.dU)

\* C3 as stated: the same fields are divergence-free at every mode.
C3_DivFree ==
  (InRK4 /\ DivFree(slv.nx, last.pre.U_hat)) =>
    /\ DivFree(slv.nx, slv.U_hat)
    /\ DivFree(slv.nx, slv.U_hat1)
    /\ rk4.at.pc = "update" => DivFree(slv.nx, slv.dU)
    /\ \A k \in 1 .. Len(last.ret) : DivFree(slv.nx, last.ret[k])

\* ---------------------------------------------------------------- C4

\* C4: whatever sources and shared keyword arguments RK4_integrate is given,
\* no source call raises because of the keyword arguments it receives.
C4_SourcesAcceptKwargs ==
  InRK4 => last.err \notin {"TypeError", "KeyError"}

\* ---------------------------------------------------------------- C5

SGSNames ==
  {"computeSource_Smagorinksy_SGS", "computeSource_DynamicSmagorinksy_SGS",
   "computeSourse_NonlinearModel_SGS"}

\* C5: a call of any of the three SGS evaluators, from any solver state,
\* leaves U_hat and U with the values they had before the call and changes dU
\* only by adding the evaluator's contribution S_hat to its previous value.
C5_SGSLeavesVelocity ==
  (last.op \in SGSNames /\ last.err = "") =>
    /\ slv.U_hat = last.pre.U_hat
    /\ slv.U = last.pre.U
    /\ slv.dU = VKAdd(last.pre.dU, slv.S_hat)

\* ---------------------------------------------------------------- C6

\* mean(L_ij M_ij)/mean(M_ij M_ij) over the whole domain, from the means of
\* the equally sized subdomains
WholeDomainCsSqr ==
  QRound(QDiv(QSumSeq([r \in 1 .. comm |-> last.loc[r].l_m], comm),
              QSumSeq([r \in 1 .. comm |-> last.loc[r].m_m], comm)))

\* C6: in the dynamic Smagorinsky evaluator every process computes the same
\* Cs^2, the ratio of the whole-domain means of L_ij M_ij and M_ij M_ij, for
\* any number of processes and any field.
C6_SameCsOnAllRanks ==
  (last.op = "computeSource_DynamicSmagorinksy_SGS" /\ last.err = "") =>
    \A r \in 1 .. comm : last.loc[r].C_s_sqr = WholeDomainCsSqr

\* ---------------------------------------------------------------- C7

\* the collective calls of a call log: everything but the prints
Collective(c) == SelectSeq(c, LAMBDA x : x # "print")

\* C7: in every public operation called with the same arguments on all
\* processes, every process issues the same sequence of collective calls
\* (transforms and allreduce reductions), whatever its rank and its local
\* data.
C7_SameCollectives ==
  \A q \in DOMAIN last.calls :
    Collective(last.calls[q]) = Collective(last.calls[1])

\* the dynamic Smagorinsky evaluator on two processes: rank 0 alone prints,
\* between collective calls
C7_Witness ==
  /\ comm = 2
  /\ last.op = "computeSource_DynamicSmagorinksy_SGS"
  /\ last.calls[1] # last.calls[2]
  /\ Len(Collective(last.calls[2])) > 0

\* ---------------------------------------------------------------- C8

\* C8: for every kernel type filter_kernel accepts and every positive cutoff
\* kf, the returned transfer function is exactly 1 + 0j at the zero
\* wavenumber mode.
C8_UnitGainAtZero ==
  (last.op = "filter_kernel" /\ last.err = "") =>
    last.ret[<<0, 0, 0>>] = C1

\* ---------------------------------------------------------------- C9

BadLength(arg) == arg.it /\ Len(arg.v) \notin {1, 3}
Expanded(arg) ==
  IF arg.it /\ Len(arg.v) = 3 THEN arg.v ELSE <<arg.v[1], arg.v[1], arg.v[1]>>

\* C9: the constructor raises and yields no instance when nx or L is an
\* iterable of a length other than 1 and 3 or when the kernel label is
\* unknown; otherwise a scalar or length-1 nx or L is expanded to three
\* equal components and a length-3 value is taken as given.  filter_kernel
\* with an unknown label raises and returns no kernel.
C9_ConstructorValidates ==
  /\ last.op = "__init__" =>
       IF \/ BadLength(last.args.nx) \/ BadLength(last.args.L)
          \/ last.args.Gtype \notin {"tophat", "comp_exp", "spectral"}
       THEN last.err # "" /\ ~Live(slv)
       ELSE /\ last.err = "" /\ Live(slv)
            /\ slv.nx = Expanded(last.args.nx)
            /\ slv.L = Expanded(last.args.L)
  /\ (last.op = "filter_kernel"
        /\ last.args.Gtype \notin {"tophat", "comp_exp", "spectral"}) =>
       last.err = "ValueError" /\ last.ret = <<>>

\* a construction refused for an nx of length 2
C9_Witness ==
  /\ last.op = "__init__"
  /\ last.args.nx.it /\ Len(last.args.nx.v) = 2
  /\ last.err = "IndexError: nx"
  /\ ~Live(slv)

\* --------------------------------------------------------------- C10

\* C10: two calls of Initialize_HIT_random_spectrum with the same (Urms,
\* k_exp, k_peak, rseed) produce the same U_hat and U, for every rseed and
\* whatever was drawn before each call.
C10_SameSeedSameField ==
  \A a \in memo, b \in memo :
    a.args = b.args => a.U_hat = b.U_hat /\ a.U = b.U

\* --------------------------------------------------------------- C11

\* the factor line 563 multiplies S_mod_S_ij_les by on process r (from 1)
AppliedFactor(r) == SmagCoef(last.loc[r].C_s, slv.D)

\* process r estimated a negative coefficient from a positive denominator
Backscatter(r) == QLt(last.loc[r].l_m, Q0) /\ QLt(Q0, last.loc[r].m_m)

\* C11: in the dynamic Smagorinsky evaluator, whenever mean(L_ij M_ij) < 0
\* and mean(M_ij M_ij) > 0, the |S|S_ij term is scaled by the finite negative
\* factor 2*Cs^2*D^2 and its divergence is added to dU; the contribution is
\* neither clamped to zero nor turned into NaN.
C11_BackscatterApplied ==
  (last.op = "computeSource_DynamicSmagorinksy_SGS" /\ last.err = "") =>
    \A r \in 1 .. comm :
      Backscatter(r) =>
        /\ AppliedFactor(r)
             = QMul(QInt(2), QMul(last.loc[r].C_s_sqr, QMul(slv.D, slv.D)))
        /\ QIsFinite(AppliedFactor(r)) /\ QLt(AppliedFactor(r), Q0)
        /\ \A p \in LocalPoints(slv, r - 1), i \in 1 .. 3, j \in 1 .. 3 :
             ~QIsNaN(slv.S_mod_S_ij_les[i][j][p])
        /\ \A m \in Modes(slv.nx), i \in 1 .. 3 :
             ~QIsNaN(slv.S_hat[i][m][1]) /\ ~QIsNaN(slv.dU[i][m][1])

\* --------------------------------------------------------------- C12

\* the instance with dU cleared
ZeroDU(s) == [s EXCEPT !.dU = Vec(LAMBDA i : KFill(s.nx, C0))]

\* the source RK4_integrate is about to call
NextSource == rk4.Sources[rk4.at.n]

\* C12: dU is stage-local.  In every stage the advection-diffusion evaluator
\* overwrites every component of dU, so the dU it leaves is the one it would
\* leave on a cleared dU, and every source of the stage adds to it the
\* contribution it would add to a cleared dU: the dU that is filtered and
\* projected does not depend on what dU held before the stage (a previous
\* stage, a previous step, the uninitialised buffer).
C12_StageLocal ==
  [][/\ (rk4.at.pc = "computeAD" /\ trace' # trace) =>
          slv'.dU = computeAD_vorticity_formulation(ZeroDU(slv)).dU
     /\ (rk4.at.pc = "Source" /\ trace' # trace) =>
          slv'.dU = VKAdd(slv.dU,
                          CallSource(NextSource, ZeroDU(slv), rng,
                                     rk4.kwargs).s.dU)]_vars

\* a later stage about to filter the right-hand side of advection-diffusion
\* and a source, the previous stage having left a non-zero dU
C12_Witness ==
  /\ InRK4 /\ rk4.at.pc = "filter" /\ rk4.at.rk >= 1
  /\ Len(rk4.Sources) > 0
  /\ last.ret[rk4.at.rk] # Vec(LAMBDA i : KFill(slv.nx, C0))
  /\ \A m \in Modes(slv.nx) : FiniteAt(slv.dU, m)
  /\ slv.dU # last.ret[rk4.at.rk]

\* --------------------------------------------------------------- C13

\* the instance with every scratch array filled with the value v
Scrub(s, v) ==
  [s EXCEPT
     !.omga = Vec(LAMBDA i : PFill(s.nx, v)),
     !.U_test = Vec(LAMBDA i : PFill(s.nx, v)),
     !.A = Ten(LAMBDA j, i : PFill(s.nx, v)),
     !.R = Ten(LAMBDA j, i : PFill(s.nx, v)),
     !.S_mod_S_ij_les = Ten(LAMBDA j, i : PFill(s.nx, v)),
     !.L_dyn = Ten(LAMBDA j, i : PFill(s.nx, v)),
     !.M_dyn = Ten(LAMBDA j, i : PFill(s.nx, v)),
     !.S_hat = Vec(LAMBDA i : KFill(s.nx, <<v, v>>)),
     !.U_hat_test = Vec(LAMBDA i : KFill(s.nx, <<v, v>>))]

\* what the scratch arrays are filled with: NaN, which every read hands on,
\* and a number
Poisons == {QNaN, QInt(5)}

Evaluators ==
  SourceNames \cup {"computeAD_vorticity_formulation",
                    "Initialize_Taylor_Green_vortex",
                    "Initialize_HIT_random_spectrum"}

\* the call op(args) on the instance s with the generators g
Run(op, args, s, g) ==
  CASE op \in SourceNames -> CallSource(op, s, g, args.kwargs)
    [] op = "computeAD_vorticity_formulation" ->
         Done(computeAD_vorticity_formulation(s), g)
    [] op = "Initialize_Taylor_Green_vortex" ->
         Done(Initialize_Taylor_Green_vortex(s), g)
    [] op = "Initialize_HIT_random_spectrum" ->
         Done(Initialize_HIT_random_spectrum(s, g, args.Urms, args.k_exp,
                                             args.k_peak, args.rseed),
              HIT_spectrum_rng(s, g, args.rseed))

\* what a call leaves behind outside the scratch arrays (loc: the locals of
\* a source, per process)
Outcome(err, s, g, loc) ==
  [err |-> err, U |-> s.U, U_hat |-> s.U_hat, dU |-> s.dU,
   nuTmax |-> s.nuTmax, rng |-> g, loc |-> loc]
OutcomeOf(r) == Outcome(r.err, r.s, r.rng, r.loc)

\* C13: the scratch arrays omga, A, R, S_mod_S_ij_les, L_dyn, M_dyn, S_hat,
\* U_test and U_hat_test are written before they are read in every call of
\* an evaluator or an initializer: the call leaves what it would have left
\* had the scratch arrays held anything else on entry, whatever was called
\* before.
C13_ScratchWriteBeforeRead ==
  [][(nops' = nops + 1 /\ last'.op \in Evaluators) =>
        \A v \in Poisons :
          OutcomeOf(Run(last'.op, last'.args, Scrub(slv, v), rng))
            = Outcome(last'.err, slv', rng',
                      IF last'.op \in SourceNames THEN last'.loc
                      ELSE NoLoc(slv))]_vars

\* an SGS evaluator called after another operation has used the scratch
\* arrays
C13_Witness ==
  /\ nops = 2
  /\ last.op \in SGSNames /\ last.err = ""
  /\ slv.S_hat # Vec(LAMBDA i : KFill(slv.nx, C0))
  /\ slv.A # Ten(LAMBDA j, i : PFill(slv.nx, Q0))
  /\ \A m \in Modes(slv.nx) : FiniteAt(slv.dU, m)

\* --------------------------------------------------------------- C14

\* the vorticity with the derivative along direction j taken with K[2-j],
\* as the SGS evaluators take it:
\* omga[0] = d1 u2 - d2 u1, omga[1] = d2 u0 - d0 u2, omga[2] = d0 u1 - d1 u0
VorticityRev(nx, U_hat) ==
  <<irfft3(nx, CurlTerm(nx, 2, U_hat[3], 1, U_hat[2])),
    irfft3(nx, CurlTerm(nx, 1, U_hat[1], 3, U_hat[3])),
    irfft3(nx, CurlTerm(nx, 3, U_hat[2], 2, U_hat[1]))>>

\* the rate of strain with the derivative along direction j taken with K[j],
\* as the projection's divergence sum(dU[i]*K[i]) takes it
StrainRateFwd(nx, U_hat) ==
  After(U_hat, Ten(LAMBDA j, i :
    PScale(Q(1, 2),
           irfft3(nx, Force([m \in Modes(nx) |->
                     CTimesI(CAdd(CScale(QInt(KAt(nx, m)[j]), U_hat[i][m]),
                                  CScale(QInt(KAt(nx, m)[i]), U_hat[j][m])))])))))

\* C14: all spectral differentiation pairs direction j with K[2-j]: the curl
\* of the advection-diffusion evaluator is the curl taken with K[2-j], and
\* the rate of strain of the SGS evaluators pairs the components with the
\* wavevector as the divergence removed by the projection does.
C14_OnePairing ==
  /\ last.op = "computeAD_vorticity_formulation" =>
       slv.omga = VorticityRev(slv.nx, slv.U_hat)
  /\ (last.op \in {"computeSource_Smagorinksy_SGS",
                   "computeSourse_NonlinearModel_SGS"} /\ last.err = "") =>
       slv.A = StrainRateFwd(slv.nx, slv.U_hat)

\* --------------------------------------------------------------- C15

\* min(dx)**2/max(2*nu, nuTmax/cfl), the diffusion bound
DiffusionBound(s, cfl) ==
  QDiv(QMul(QMin(dxOf(s)[1], QMin(dxOf(s)[2], dxOf(s)[3])),
            QMin(dxOf(s)[1], QMin(dxOf(s)[2], dxOf(s)[3]))),
       QMax(QMul(QInt(2), s.nu), QDiv(s.nuTmax, cfl)))

\* C15: for every cfl > 0, nu > 0, nuTmax >= 0 and every (finite) velocity
\* field U, also one with a component that is everywhere negative or
\* everywhere zero,
\* new_dt_const_nu returns a strictly positive finite timestep that does not
\* exceed the diffusion bound.
C15_PositiveTimestep ==
  (/\ last.op = "new_dt_const_nu"
   /\ QLt(Q0, last.args.cfl) /\ QLt(Q0, slv.nu)
   /\ QIsFinite(slv.nuTmax) /\ ~QLt(slv.nuTmax, Q0)
   /\ \A i \in 1 .. 3, p \in Points(slv.nx) : QIsFinite(slv.U[i][p])) =>
    /\ QIsFinite(last.ret)
    /\ QLt(Q0, last.ret)
    /\ ~QLt(DiffusionBound(slv, last.args.cfl), last.ret)

====
